---- MODULE Spec2Model ----
(***************************************************************************)
(* Bytecrafter CLI: the agent's control loop (main / run_tool_loop), the   *)
(* response parser (parse_agent_response) and the conversation store.      *)
(*                                                                         *)
(* Text is a sequence of symbols.  A symbol is a record [k, n]:            *)
(*   k = "open"   the start tag  <n>                                       *)
(*   k = "close"  the end tag    </n>                                      *)
(*   k = "fence"  a markdown code fence, ```n                              *)
(*   k = "ch"     character data: one metacharacter (& < > ; / " ' and the *)
(*                blank " ") or a run of letters (n = "ls", "amp", ...)    *)
(* An entity reference &amp; is the three symbols  & amp ;                 *)
(* Texts are kept lexed: a raw "<" is never directly followed by a letter  *)
(* run, so tags only arise from open/close symbols.                        *)
(***************************************************************************)
EXTENDS Naturals, Sequences, FiniteSets, TLC

O(n) == [k |-> "open", n |-> n]
C(n) == [k |-> "close", n |-> n]
Ch(c) == [k |-> "ch", n |-> c]
Fence(n) == [k |-> "fence", n |-> n]

Amp == Ch("&")
Lt == Ch("<")
Gt == Ch(">")
Semi == Ch(";")
Blank == Ch(" ")

\* Python's None for a tool name.
None == "None"

----------------------------------------------------------------------------
(* str helpers *)

RECURSIVE Flatten(_)
Flatten(ss) ==
    IF ss = <<>> THEN <<>>
    ELSE IF Len(ss) = 1 THEN ss[1]
    ELSE LET half == Len(ss) \div 2
         IN  Flatten(SubSeq(ss, 1, half)) \o Flatten(SubSeq(ss, half + 1, Len(ss)))

\* The least index i >= from with text[i] = sym, or 0 (re.search for a literal).
IndexFrom(text, sym, from) ==
    LET hits == {i \in from..Len(text) : text[i] = sym}
    IN  IF hits = {} THEN 0 ELSE CHOOSE i \in hits : \A j \in hits : i <= j

\* str.strip(): drop leading and trailing whitespace.
RECURSIVE strip(_)
strip(s) ==
    IF s = <<>> THEN <<>>
    ELSE IF Head(s) = Blank THEN strip(Tail(s))
    ELSE IF s[Len(s)] = Blank THEN strip(SubSeq(s, 1, Len(s) - 1))
    ELSE s

----------------------------------------------------------------------------
(* html.escape(s), quote=True *)

html_escape_symbol(s) ==
    IF s.k = "open" THEN <<Amp, Ch("lt"), Semi, Ch(s.n), Amp, Ch("gt"), Semi>>
    ELSE IF s.k = "close"
         THEN <<Amp, Ch("lt"), Semi, Ch("/"), Ch(s.n), Amp, Ch("gt"), Semi>>
    ELSE IF s = Amp THEN <<Amp, Ch("amp"), Semi>>
    ELSE IF s = Lt THEN <<Amp, Ch("lt"), Semi>>
    ELSE IF s = Gt THEN <<Amp, Ch("gt"), Semi>>
    ELSE IF s = Ch("\"") THEN <<Amp, Ch("quot"), Semi>>
    ELSE IF s = Ch("'") THEN <<Amp, Ch("#x27"), Semi>>
    ELSE <<s>>

html_escape(s) == Flatten([i \in 1..Len(s) |-> html_escape_symbol(s[i])])

\* re.sub(rf"<{tag}>(.*?)</{tag}>", escape the group, text, flags=re.DOTALL):
\* every leftmost non-greedy match, scanning on after the match.
RECURSIVE sanitize_tag(_, _)
sanitize_tag(text, tag) ==
    LET i == IndexFrom(text, O(tag), 1)
        j == IF i = 0 THEN 0 ELSE IndexFrom(text, C(tag), i + 1)
    IN  IF j = 0 THEN text
        ELSE SubSeq(text, 1, i)
             \o html_escape(SubSeq(text, i + 1, j - 1))
             \o <<C(tag)>>
             \o sanitize_tag(SubSeq(text, j + 1, Len(text)), tag)

\* for tag in ["command", "result", "question", "answer"]: ...
FreeTextTags == <<"command", "result", "question", "answer">>

RECURSIVE sanitize(_, _)
sanitize(text, k) ==
    IF k > Len(FreeTextTags) THEN text
    ELSE sanitize(sanitize_tag(text, FreeTextTags[k]), k + 1)

\* text.replace("```xml", "").replace("```", "").strip()
strip_fences(text) == strip(SelectSeq(text, LAMBDA s : s.k # "fence"))

----------------------------------------------------------------------------
(* xml.etree.ElementTree.fromstring, as far as parse_agent_response reads  *)
(* the tree: the children of the document element (tag, leading text) and  *)
(* their children (tag, leading text).  Element.text is the character data *)
(* before the first child element; later character data is a tail.         *)

EntityChar(name) ==
    IF name = "amp" THEN "&"
    ELSE IF name = "lt" THEN "<"
    ELSE IF name = "gt" THEN ">"
    ELSE IF name = "quot" THEN "\""
    ELSE "'"

\* The predefined entities and the one character reference html.escape writes.
EntityNames == {"amp", "lt", "gt", "quot", "apos", "#x27"}

NewElement(tag) == [tag |-> tag, text |-> <<>>, hasChild |-> FALSE, children |-> <<>>]

XmlStart == [ok |-> TRUE, stack |-> <<>>, closed |-> FALSE, children |-> <<>>]

XmlError(st) == [st EXCEPT !.ok = FALSE]

\* A start tag at nesting depth Len(stack).
XmlOpen(st, n) ==
    LET d == Len(st.stack)
        m == Len(st.children)
        pushed == [st EXCEPT !.stack = Append(@, n)]
    IN  IF d = 0 THEN (IF st.closed THEN XmlError(st) ELSE pushed)
        ELSE IF d = 1
             THEN [pushed EXCEPT !.children = Append(@, NewElement(n))]
        ELSE IF d = 2
             THEN [pushed EXCEPT !.children[m].hasChild = TRUE,
                                 !.children[m].children = Append(@, NewElement(n))]
        ELSE IF d = 3
             THEN [pushed EXCEPT
                     !.children[m].children[Len(st.children[m].children)].hasChild = TRUE]
        ELSE pushed

\* An end tag: it must match the innermost open element.
XmlClose(st, n) ==
    LET d == Len(st.stack)
    IN  IF d = 0 \/ st.stack[d] # n THEN XmlError(st)
        ELSE [st EXCEPT !.stack = SubSeq(@, 1, d - 1), !.closed = (d = 1)]

\* One character of character data.
XmlChar(st, c) ==
    LET d == Len(st.stack)
        m == Len(st.children)
    IN  IF d = 0 THEN (IF c = Blank THEN st ELSE XmlError(st))
        ELSE IF d = 2 /\ ~st.children[m].hasChild
             THEN [st EXCEPT !.children[m].text = Append(@, c)]
        ELSE IF d = 3 /\ ~st.children[m].children[Len(st.children[m].children)].hasChild
             THEN [st EXCEPT
                     !.children[m].children[Len(st.children[m].children)].text = Append(@, c)]
        ELSE st

RECURSIVE XmlScan(_, _, _)
XmlScan(text, i, st) ==
    IF ~st.ok THEN st
    ELSE IF i > Len(text)
         THEN (IF st.stack = <<>> /\ st.closed THEN st ELSE XmlError(st))
    ELSE LET s == text[i]
         IN  IF s.k = "open" THEN XmlScan(text, i + 1, XmlOpen(st, s.n))
             ELSE IF s.k = "close" THEN XmlScan(text, i + 1, XmlClose(st, s.n))
             ELSE IF s.k = "fence" THEN XmlScan(text, i + 1, XmlChar(st, s))
             ELSE IF s = Lt THEN XmlError(st)
             ELSE IF s = Amp
                  THEN (IF /\ i + 2 <= Len(text)
                           /\ text[i + 1].k = "ch"
                           /\ text[i + 1].n \in EntityNames
                           /\ text[i + 2] = Semi
                           /\ st.stack # <<>>
                        THEN XmlScan(text, i + 3,
                                     XmlChar(st, Ch(EntityChar(text[i + 1].n))))
                        ELSE XmlError(st))
             ELSE XmlScan(text, i + 1, XmlChar(st, s))

\* Mutant: a recovering parser, which returns the tree built so far.
ET_fromstring_recovering(xml_text) == [XmlScan(xml_text, 1, XmlStart) EXCEPT !.ok = TRUE]

\* ET.fromstring(xml_text): [ok |-> FALSE, ...] stands for ET.ParseError.
ET_fromstring(xml_text) == XmlScan(xml_text, 1, XmlStart)

----------------------------------------------------------------------------
(* parse_agent_response *)

\* return None
ParseFailure ==
    [ok |-> FALSE, thinking |-> <<>>, tool_name |-> None,
     parameters |-> [n \in {} |-> <<>>]]

\* child.text.strip() if child.text else ""
TextOf(element) == strip(element.text)

\* Mutant: the reasoning block is not skipped.
ReservedTags_without_thinking == {"root", "tool_result"}

\* The tags the scan for the tool element skips.
ReservedTags == {"thinking", "root", "tool_result"}

\* {child.tag: ... for child in tool_element}: a later child replaces an
\* earlier one of the same tag.
ParametersOf(element) ==
    LET kids == element.children
        tags == {kids[i].tag : i \in 1..Len(kids)}
        last(t) == CHOOSE i \in 1..Len(kids) :
                      /\ kids[i].tag = t
                      /\ \A j \in 1..Len(kids) : kids[j].tag = t => j <= i
    IN  [t \in tags |-> TextOf(kids[last(t)])]

\* The least member of a set of indices, 0 for none.
First(hits) == IF hits = {} THEN 0 ELSE CHOOSE i \in hits : \A j \in hits : i <= j

\* root.find("thinking"): the first child with that tag.
find(children, tag) == First({i \in 1..Len(children) : children[i].tag = tag})

\* for child in root: if child.tag not in [...]: tool_element = child; break
first_tool_element(children) ==
    First({i \in 1..Len(children) : children[i].tag \notin ReservedTags})

parse_agent_response(text) ==
    LET cleaned_text == sanitize(strip_fences(text), 1)
        xml_text == <<O("root")>> \o cleaned_text \o <<C("root")>>
        root == ET_fromstring(xml_text)
        t == find(root.children, "thinking")
        thinking == IF t = 0 THEN <<>> ELSE TextOf(root.children[t])
        a == first_tool_element(root.children)
    IN  IF ~root.ok THEN ParseFailure
        ELSE IF a = 0
             THEN [ok |-> TRUE, thinking |-> thinking, tool_name |-> None,
                   parameters |-> [n \in {} |-> <<>>]]
        ELSE [ok |-> TRUE, thinking |-> thinking,
              tool_name |-> root.children[a].tag,
              parameters |-> ParametersOf(root.children[a])]

----------------------------------------------------------------------------
(* Bounds of the model *)

\* User inputs per session.
MaxUserInputs == 2
\* Provider calls per session.
MaxModelCalls == 3
\* Length of a parameter value the model writes.
MaxValueLen == 2

----------------------------------------------------------------------------
(* What the model writes.  A response is written from an intent: a reasoning *)
(* block and one action block with one parameter, the value written with     *)
(* the escaping the system prompt asks for or raw; or reasoning alone; or    *)
(* plain text.  cut > 0 is an output that stops after cut symbols.           *)

\* SYSTEM_PROMPT: special XML characters in parameter values MUST be escaped.
xml_escape_symbol(s) ==
    IF s = Amp THEN <<Amp, Ch("amp"), Semi>>
    ELSE IF s = Lt THEN <<Amp, Ch("lt"), Semi>>
    ELSE IF s = Gt THEN <<Amp, Ch("gt"), Semi>>
    ELSE <<s>>

xml_escape(v) == Flatten([i \in 1..Len(v) |-> xml_escape_symbol(v[i])])

ThinkingBlock == <<O("thinking"), Blank, Ch("plan"), C("thinking")>>

Render(w) ==
    LET body ==
          IF w.kind = "plain" THEN w.value
          ELSE IF w.kind = "reasoning" THEN ThinkingBlock \o w.value
          ELSE (IF w.thinking THEN ThinkingBlock ELSE <<>>)
               \o <<O(w.tool), O(w.param)>>
               \o (IF w.escaped THEN xml_escape(w.value) ELSE w.value)
               \o <<C(w.param), C(w.tool)>>
        whole == IF w.fenced THEN <<Fence("xml")>> \o body \o <<Fence("")>> ELSE body
    IN  IF w.cut > 0 /\ w.cut < Len(whole) THEN SubSeq(whole, 1, w.cut) ELSE whole

Intent(kind, thinking, tool, param, value, escaped, fenced, cut) ==
    [kind |-> kind, thinking |-> thinking, tool |-> tool, param |-> param,
     value |-> value, escaped |-> escaped, fenced |-> fenced, cut |-> cut]

NoIntent == Intent("none", FALSE, None, None, <<>>, FALSE, FALSE, 0)

----------------------------------------------------------------------------
(* State *)

VARIABLES
    pc,                         \* where the session is blocked
    event,                      \* what the last step did
    ENABLE_MEMORY,              \* os.getenv("ENABLE_MEMORY") == "true"
    SessionLocal,               \* database.SessionLocal is not None
    PREFERRED_LLM_PROVIDER,     \* os.getenv("PREFERRED_LLM_PROVIDER", "auto").lower()
    adapters,                   \* what loading and instantiating each adapter does
    key,                        \* _auto_select: 0 for the preferred adapter, then
                                \* the position in the priority list
    current_provider,           \* providers.current_provider, None while unset
    prior_conversations,        \* tables conversations and messages as earlier sessions
                                \* left them: what a search for the user's words finds
    project_context,            \* table project_context: what it holds for the words
    learning_memory,            \* table learning_memory: what it holds for the words
    conversation_history,       \* main.conversation_history
    current_conversation_id,    \* ConversationManager.current_conversation_id, 0 for None
    conversations,              \* table conversations: id -> [status]
    messages,                   \* table messages, in insertion order
    commit,                     \* what session.commit() does in the store's writes
    writers,                    \* the save_message calls in progress of the writers
                                \* that share the current conversation
    fs,                         \* the file system of the tools: the symbolic link in
                                \* the project root, the path _normalize_path returned
                                \* last (none when it raised), the files written
    called,                     \* the callables of the tools module the dispatches have executed
    task_manager,               \* task_manager.task_manager: tasks by id, current_task_id, task_counter
    task_result,                \* what the last task tool was given and what its report says
    learned,                    \* table learning_memory, row by row
    stdio,                      \* a StdioClient: its requests, the server's stdout, _responses
    cwd,                        \* os.getcwd(): the working directory of the process
    written,                    \* the intent behind agent_response_text
    agent_response_text,        \* the text of the last model response
    parsed_response,            \* parse_agent_response(agent_response_text)
    tool_name,                  \* the invocation being confirmed or dispatched
    tool_args,
    history,                    \* the history of the last provider call
    in_loop,                    \* run_tool_loop is running
    n_inputs,                   \* user inputs so far
    n_calls                     \* provider calls so far

vars == <<pc, event, ENABLE_MEMORY, SessionLocal, PREFERRED_LLM_PROVIDER, adapters, key,
          current_provider, prior_conversations, project_context, learning_memory,
          conversation_history,
          current_conversation_id, conversations, messages, commit, written,
          agent_response_text, parsed_response, tool_name, tool_args,
          history, in_loop, n_inputs, n_calls, writers, fs, called, task_manager, task_result, learned, stdio, cwd>>

config == <<ENABLE_MEMORY, SessionLocal, PREFERRED_LLM_PROVIDER, adapters, key,
            current_provider, prior_conversations, project_context, learning_memory,
            writers, fs, called, task_manager, task_result, learned, stdio, cwd>>

\* No tool has written a file.
UntouchedFiles == [link |-> "none", abs_path |-> {}, files |-> {}]

\* The session is the only writer of its conversation.
SingleWriter == <<>>

\* No dispatch has called anything.
NothingCalled == {}

\* TaskManager.__init__: no task, no current task, the counter at 0.
NewTaskManager == [tasks |-> <<>>, current_task_id |-> None, task_counter |-> 0]

\* Table learning_memory with no row. json_tracked tells whether the ORM
\* writes back a JSON column that was changed in place.
NothingLearned == [json_tracked |-> FALSE, rows |-> <<>>]

\* A StdioClient just constructed: no request made, nothing on the server's
\* stdout, _responses empty.
NewStdioClient == [requests |-> <<>>, stdout |-> <<>>, responses |-> {}, responded |-> 0]

\* os.getcwd() when the session starts.
StartDirectory == "project"

\* No task tool has returned.
NoTaskResult == [op |-> "none", descriptions |-> <<>>, count |-> 0, listed |-> <<>>]

\* The memory tables of a first session: nothing stored yet.
FreshMemory ==
    /\ prior_conversations = "nothing"
    /\ project_context = "nothing"
    /\ learning_memory = "nothing"
store == <<current_conversation_id, conversations, messages, commit>>
response == <<written, agent_response_text, parsed_response>>
invocation == <<tool_name, tool_args>>

AWAITING_USER_INPUT == "AWAITING_USER_INPUT"
MODEL_CALL_PENDING == "MODEL_CALL_PENDING"
AWAITING_CONFIRMATION == "AWAITING_CONFIRMATION"
DISPATCHING_TOOL == "DISPATCHING_TOOL"
EXITED == "EXITED"

NoParameters == [n \in {} |-> <<>>]
NotParsed == [ok |-> FALSE, thinking |-> <<>>, tool_name |-> None, parameters |-> NoParameters]

----------------------------------------------------------------------------
(* providers: the selection of current_provider at import time *)

\* The keys of _PROVIDER_CLASSES.
ProviderNames == {"gemini", "openai", "groq", "openrouter", "ollama", "vertex",
                  "deepseek", "mistral", "xai"}

\* for key in ["gemini", "openai", ...]
PriorityOrder == <<"gemini", "openai", "groq", "openrouter", "deepseek", "mistral",
                   "ollama", "vertex", "xai">>

\* What _load_class(path) and cls() can do for an adapter:
\*   "configured"      the module loads and _check_configuration passes
\*   "not_configured"  _check_configuration raises ProviderNotConfigured (a
\*                     missing key, a missing optional package, no server)
\*   "import_error"    import_module raises: the adapter module imports a
\*                     package at top level without a guard (gemini:
\*                     google.generativeai; deepseek and ollama: requests)
\* vertex is StubProvider, which never configures.
AdapterOutcomes(name) ==
    IF name = "vertex" THEN {"not_configured"}
    ELSE IF name \in {"gemini", "deepseek", "ollama"}
         THEN {"configured", "not_configured", "import_error"}
    ELSE {"configured", "not_configured"}

\* PREFERRED_LLM_PROVIDER: unset ("auto"), an adapter, or any other word.
PreferredSettings == {"auto", "azure"} \cup ProviderNames

\* instantiate(name): "provider", "none" (None) or "raises".
instantiate(name) ==
    IF name \notin ProviderNames THEN "none"
    ELSE IF adapters[name] = "import_error" THEN "raises"
    ELSE IF adapters[name] = "configured" THEN "provider"
    ELSE "none"

\* if preferred != "auto":
preferred_is_tried(preferred) == preferred # "auto"

SELECTING == "SELECTING"
SELECTED == "SELECTED"
STARTUP_FAILED == "STARTUP_FAILED"

InitSelect ==
    /\ pc = SELECTING
    /\ event = "start"
    /\ ENABLE_MEMORY = FALSE
    /\ SessionLocal = FALSE
    /\ PREFERRED_LLM_PROVIDER \in PreferredSettings
    /\ adapters \in [ProviderNames -> {"configured", "not_configured", "import_error"}]
    /\ \A name \in ProviderNames : adapters[name] \in AdapterOutcomes(name)
    /\ key = 0
    /\ current_provider = None
    /\ FreshMemory
    /\ conversation_history = <<>>
    /\ history = <<>>
    /\ current_conversation_id = 0
    /\ conversations = <<>>
    /\ fs = UntouchedFiles
    /\ writers = SingleWriter
    /\ cwd = StartDirectory
    /\ stdio = NewStdioClient
    /\ learned = NothingLearned
    /\ task_result = NoTaskResult
    /\ task_manager = NewTaskManager
    /\ called = NothingCalled
    /\ commit = "ok"
    /\ messages = <<>>
    /\ written = NoIntent
    /\ agent_response_text = <<>>
    /\ parsed_response = NotParsed
    /\ tool_name = None
    /\ tool_args = NoParameters
    /\ in_loop = FALSE
    /\ n_inputs = 0
    /\ n_calls = 0

\* The rest of the session does not take part in the selection.
session_state == <<ENABLE_MEMORY, SessionLocal, PREFERRED_LLM_PROVIDER, adapters,
                   prior_conversations, project_context, learning_memory, conversation_history, history, current_conversation_id, conversations,
                   messages, commit, written, agent_response_text, parsed_response, tool_name,
                   tool_args, in_loop, n_inputs, n_calls, writers, fs, called, task_manager, task_result, learned, stdio, cwd>>

\* provider = instantiate(name); if provider: return provider
try_adapter(name, next_key) ==
    /\ event' = name
    /\ IF instantiate(name) = "provider"
       THEN pc' = SELECTED /\ current_provider' = name /\ key' = key
       ELSE IF instantiate(name) = "raises"
            THEN pc' = STARTUP_FAILED /\ current_provider' = None /\ key' = key
       ELSE pc' = SELECTING /\ current_provider' = None /\ key' = next_key

\* _auto_select, lines 40-43: the preferred adapter.
select_preferred ==
    /\ pc = SELECTING /\ key = 0
    /\ IF preferred_is_tried(PREFERRED_LLM_PROVIDER)
       THEN try_adapter(PREFERRED_LLM_PROVIDER, 1)
       ELSE /\ key' = 1
            /\ event' = "auto"
            /\ UNCHANGED <<pc, current_provider>>
    /\ UNCHANGED session_state

\* _auto_select, lines 46-59: the next adapter in priority order.
select_in_priority_order ==
    /\ pc = SELECTING /\ key \in 1..Len(PriorityOrder)
    /\ try_adapter(PriorityOrder[key], key + 1)
    /\ UNCHANGED session_state

\* _auto_select, line 60: raise RuntimeError("No configured LLM provider ...")
select_none ==
    /\ pc = SELECTING /\ key = Len(PriorityOrder) + 1
    /\ pc' = STARTUP_FAILED
    /\ event' = "RuntimeError"
    /\ UNCHANGED <<key, current_provider, session_state>>

NextSelect ==
    \/ select_preferred
    \/ select_in_priority_order
    \/ select_none

SpecSelect == InitSelect /\ [][NextSelect]_vars

\* A session runs once a provider was selected: here gemini, by its key.
SessionProvider ==
    /\ PREFERRED_LLM_PROVIDER = "auto"
    /\ adapters = [name \in ProviderNames |->
                     IF name = "gemini" THEN "configured" ELSE "not_configured"]
    /\ key = 1
    /\ current_provider = "gemini"

----------------------------------------------------------------------------
(* ConversationManager *)

\* get_session(): None unless memory is enabled and init_database succeeded.
get_session == ENABLE_MEMORY /\ SessionLocal

Max(S) == IF S = {} THEN 0 ELSE CHOOSE x \in S : \A y \in S : y <= x

\* Mutant: an error of the write leaves save_message as an exception.
save_message_raises_on_error(st) == get_session /\ st.commit # "ok"

\* save_message runs its write in try / except Exception and returns False.
save_message_raises(st) == FALSE

\* Mutant: every save starts a conversation.
always_a_new_conversation(st) == TRUE

\* save_message, lines 52-53: a conversation is started when there is none.
no_current_conversation(st) == st.current_conversation_id = 0

\* Mutant: the order is the number of the conversation's messages so far.
next_order_counts_rows(orders) == Cardinality(orders)

\* save_message, lines 61-65: next_order from the message with the highest
\* message_order of the conversation.
next_order(orders) == IF orders = {} THEN 1 ELSE Max(orders) + 1

\* save_message(role, content, tool_name): the store afterwards.  A missing
\* current conversation is first created by start_new_conversation.  A commit
\* that fails is rolled back and leaves the tables, and the id, as they were.
save_message(st, role, content, tool) ==
    LET create == no_current_conversation(st) /\ get_session
        id == IF create THEN Len(st.conversations) + 1 ELSE st.current_conversation_id
        convs == IF create THEN Append(st.conversations, [status |-> "active"])
                 ELSE st.conversations
        orders == {st.messages[i].message_order :
                     i \in {j \in 1..Len(st.messages) : st.messages[j].conversation_id = id}}
    IN  IF ~get_session THEN st
        ELSE IF st.commit = "fails" THEN st
        ELSE IF st.commit = "fails_once" THEN [st EXCEPT !.commit = "ok"]
        ELSE [current_conversation_id |-> id,
              commit |-> st.commit,
              conversations |-> convs,
              messages |-> Append(st.messages,
                                  [conversation_id |-> id, role |-> role,
                                   content |-> content, tool_name |-> tool,
                                   message_order |-> next_order(orders)])]

\* complete_conversation(summary)
complete_conversation(st) ==
    IF st.current_conversation_id = 0 \/ ~get_session THEN st
    ELSE [st EXCEPT !.conversations[st.current_conversation_id].status = "completed"]

Store == [current_conversation_id |-> current_conversation_id, commit |-> commit,
          conversations |-> conversations, messages |-> messages]

SetStore(st) ==
    /\ current_conversation_id' = st.current_conversation_id
    /\ commit' = st.commit
    /\ conversations' = st.conversations
    /\ messages' = st.messages

Turn(role, text) == [role |-> role, text |-> text]

----------------------------------------------------------------------------
(* Inputs *)

NL == Ch("\n")

\* What the user types at the prompt (other than exit / quit).
UserTexts == {<<Ch("list files in .")>>}

\* The callables getattr(tools, tool_name) finds among the names used here.
ToolFunctions == {"list_files", "execute_command", "ask_followup_question",
                  "attempt_completion"}

\* What a tool handler returns (a listing; the text of an XML file that has
\* a <result> element), and str(e) of what it raises.
ToolOutputs == {<<Ch("ok")>>, <<O("result"), Ch("0"), C("result")>>}
ToolErrors == {<<Ch("failed")>>}

\* The model responses of the control loop.
ResponseIntents ==
    {Intent("reasoning", TRUE, None, None, v, FALSE, f, 0) :
        v \in {<<>>, <<Blank, Ch("done")>>}, f \in BOOLEAN}
    \cup {Intent("plain", FALSE, None, None, v, FALSE, FALSE, 0) :
        v \in {<<>>, <<Ch("hello")>>}}
    \cup {Intent("action", TRUE, "list_files", "path", <<Ch(".")>>, TRUE, FALSE, c) :
        c \in {0, 6}}
    \cup {Intent("action", TRUE, "execute_command", "command",
                 <<Ch("ls"), Amp>>, TRUE, FALSE, 0),
          Intent("action", FALSE, "no_such_tool", "path", <<Ch(".")>>, TRUE, FALSE, 0),
          Intent("action", TRUE, "ask_followup_question", "question",
                 <<Ch("SQLite or Postgres?")>>, TRUE, FALSE, 0),
          Intent("action", TRUE, "attempt_completion", "result",
                 <<Ch("Done")>>, TRUE, FALSE, 0)}

----------------------------------------------------------------------------
(* main and run_tool_loop *)

\* "\n".join(parts)
RECURSIVE JoinLines(_)
JoinLines(parts) ==
    IF parts = <<>> THEN <<>>
    ELSE IF Len(parts) = 1 THEN parts[1]
    ELSE parts[1] \o <<NL>> \o JoinLines(Tail(parts))

tool_result_text(tool, tool_result) ==
    <<O("tool_result"), O("tool_name"), Ch(tool), C("tool_name"), O("result")>>
    \o tool_result \o <<C("result"), C("tool_result")>>

----------------------------------------------------------------------------
(* The three retrieval sources.  The texts of the model are shorter than   *)
(* the 200 characters a snippet keeps.                                     *)

\* Message.content.ilike(f"%{query}%")
contains(content, query) ==
    \E i \in 1..(Len(content) - Len(query) + 1) :
        SubSeq(content, i, i + Len(query) - 1) = query

\* The first message of conversation id that holds the query.
relevant_message(st, id, query) ==
    LET hits == {i \in 1..Len(st.messages) :
                    /\ st.messages[i].conversation_id = id
                    /\ contains(st.messages[i].content, query)}
    IN  IF hits = {} THEN <<>> ELSE <<st.messages[First(hits)].content \o <<Ch("...")>>>>

\* The snippets of earlier sessions' conversations: an earlier user Turn with
\* the same words, or a tool result that holds them.
prior_snippets(query) ==
    IF prior_conversations = "user_turn" THEN <<query \o <<Ch("...")>>>>
    ELSE IF prior_conversations = "tool_result"
         THEN <<tool_result_text("list_files", query) \o <<Ch("...")>>>>
    ELSE <<>>

\* Mutant: a database error leaves the retrieval source as an exception.
source_raises_on_database_error(table) == table = "fails"

\* Each search runs in try / except Exception and returns [] on an error.
source_raises(table) == FALSE

\* ConversationManager.search_conversations(query, user_id, limit=3): the
\* snippets, the conversations updated last first.
search_conversations(st, query) ==
    LET ids == [k \in 1..Len(st.conversations) |-> Len(st.conversations) + 1 - k]
        current == Flatten([k \in 1..Len(ids) |-> relevant_message(st, ids[k], query)])
        found == current \o prior_snippets(query)
    IN  IF ~get_session \/ prior_conversations = "fails" THEN <<>>
        ELSE SubSeq(found, 1, IF Len(found) < 3 THEN Len(found) ELSE 3)

\* ConversationManager.get_context_for_query(query)
ConversationManager_get_context_for_query(st, query) ==
    LET related_conversations == search_conversations(st, query)
    IN  IF related_conversations = <<>> THEN <<>>
        ELSE JoinLines(<<<<Ch("Informacion de conversaciones anteriores:")>>>>
                       \o Flatten([k \in 1..Len(related_conversations) |->
                                     <<<<NL, Ch("title (date):")>>,
                                       <<Ch("   ")>> \o related_conversations[k]>>])
                       \o <<<<NL, Ch("---")>>>>)

\* ContextManager.get_project_info(project_name)
get_project_info ==
    IF get_session /\ project_context \in {"info", "info_and_match"}
    THEN <<<<Ch("   project_info: Nombre: bytecrafter")>>>> ELSE <<>>

\* ContextManager.search_project_context(query, limit=5)
search_project_context ==
    IF get_session /\ project_context \in {"match", "info_and_match"}
    THEN <<<<Ch("   qrspace8 (project_info): snippet")>>>> ELSE <<>>

\* Mutant: the project header is appended whatever was found.
ContextManager_always_a_block ==
    JoinLines(<<<<Ch("Informacion del proyecto 'bytecrafter':")>>>>
              \o get_project_info
              \o (IF search_project_context = <<>> THEN <<>>
                  ELSE <<<<NL, Ch("Informacion relacionada encontrada:")>>>>
                       \o search_project_context)
              \o <<<<Ch("---")>>>>)

\* ContextManager.get_context_for_query(query)
ContextManager_get_context_for_query ==
    IF get_project_info = <<>> /\ search_project_context = <<>> THEN <<>>
    ELSE JoinLines(<<<<Ch("Informacion del proyecto 'bytecrafter':")>>>>
                   \o get_project_info
                   \o (IF search_project_context = <<>> THEN <<>>
                       ELSE <<<<NL, Ch("Informacion relacionada encontrada:")>>>>
                            \o search_project_context)
                   \o <<<<Ch("---")>>>>)

\* LearningEngine.get_context_for_query(query)
LearningEngine_get_context_for_query ==
    IF get_session /\ learning_memory = "match"
    THEN JoinLines(<<<<Ch("Aprendizajes relevantes:")>>,
                     <<Ch("   pattern (1 usos, 0.5 confianza)")>>,
                     <<Ch("---")>>>>)
    ELSE <<>>

\* main, lines 254-260: conversation_context, project_context, learning_context.
RetrievedContexts(st, user_input) ==
    <<ConversationManager_get_context_for_query(st, user_input),
      ContextManager_get_context_for_query,
      LearningEngine_get_context_for_query>>

\* enriched_input = f"{user_input}\n\n{chr(10).join(context_parts)}"

enriched_input(user_input, ctx) ==
    LET context_parts == SelectSeq(ctx, LAMBDA c : c # <<>>)
    IN  IF context_parts = <<>> THEN user_input
        ELSE user_input \o <<NL, NL>> \o JoinLines(context_parts)

\* error_message = f"Error executing tool {tool_name}: {e}"
error_message(tool, e) == <<Ch("Error executing tool "), Ch(tool), Ch(": ")>> \o e

tool_error_text(tool, e) ==
    <<O("tool_result"), O("tool_name"), Ch(tool), C("tool_name"), O("error")>>
    \o error_message(tool, e) \o <<C("error"), C("tool_result")>>

----------------------------------------------------------------------------
(* The history passed to the provider *)

\* re.search(r'<tool_name>(.*?)</tool_name>', content): the leftmost start
\* tag whose nearest end tag is on the same line ("." matches no newline);
\* <<start, end>>, <<0, 0>> for no match.
tool_name_match(content) ==
    LET starts == {i \in 1..Len(content) :
                     /\ content[i] = O("tool_name")
                     /\ LET j == IndexFrom(content, C("tool_name"), i + 1)
                        IN  j # 0 /\ \A k \in (i + 1)..(j - 1) : content[k] # NL}
        i == First(starts)
    IN  IF i = 0 THEN <<0, 0>> ELSE <<i, IndexFrom(content, C("tool_name"), i + 1)>>

\* re.search(rf'<{tag}>(.*?)</{tag}>', content, re.DOTALL): the leftmost
\* start tag up to the nearest end tag after it.
element_match(content, tag) ==
    LET i == IndexFrom(content, O(tag), 1)
        j == IF i = 0 THEN 0 ELSE IndexFrom(content, C(tag), i + 1)
    IN  IF j = 0 THEN <<0, 0>> ELSE <<i, j>>

\* match.group(1)
group(content, m) == SubSeq(content, m[1] + 1, m[2] - 1)

\* "<tool_result>" in content and "</tool_result>" in content
is_tool_result(content) ==
    /\ \E i \in 1..Len(content) : content[i] = O("tool_result")
    /\ \E i \in 1..Len(content) : content[i] = C("tool_result")

\* f"Tool: {tool_name}\nResult: {result}" and f"Tool: {tool_name}\nError: {error}"
plain_result(name, label, body) == <<Ch("Tool: ")>> \o name \o <<NL, Ch(label)>> \o body

\* main.clean_tool_result_for_gemini(content)
clean_tool_result_for_gemini(content) ==
    LET name == tool_name_match(content)
        result == element_match(content, "result")
        error == element_match(content, "error")
    IN  IF ~is_tool_result(content) THEN content
        ELSE IF name = <<0, 0>> THEN content
        ELSE IF result # <<0, 0>>
             THEN plain_result(group(content, name), "Result: ", group(content, result))
        ELSE IF error # <<0, 0>>
             THEN plain_result(group(content, name), "Error: ", group(content, error))
        ELSE content

\* ConversationManager._clean_tool_result_for_gemini(content)
ConversationManager_clean_tool_result_for_gemini(content) ==
    LET name == tool_name_match(content)
        result == element_match(content, "result")
        error == element_match(content, "error")
    IN  IF ~is_tool_result(content) THEN content
        ELSE IF name = <<0, 0>> THEN content
        ELSE IF result # <<0, 0>>
             THEN plain_result(group(content, name), "Result: ", group(content, result))
        ELSE IF error # <<0, 0>>
             THEN plain_result(group(content, name), "Error: ", group(content, error))
        ELSE content

\* main.clean_history_for_gemini(history)
clean_history_for_gemini(h) ==
    [i \in 1..Len(h) |-> Turn(h[i].role, clean_tool_result_for_gemini(h[i].text))]

\* get_conversation_history(limit=50)
limit == 50

\* .order_by(Message.message_order): rows by ascending message_order, rows of
\* equal order in insertion order.
order_by_message_order(rows) ==
    LET n == Len(rows)
        \* the place of row i: the rows of a lower order, and the rows of the
        \* same order inserted no later, come before it
        place == [i \in 1..n |->
                    Cardinality({j \in 1..n :
                        \/ rows[j].message_order < rows[i].message_order
                        \/ /\ rows[j].message_order = rows[i].message_order
                           /\ j <= i})]
    IN  IF \A i \in 1..(n - 1) : rows[i].message_order <= rows[i + 1].message_order
        THEN rows
        ELSE [p \in 1..n |-> rows[CHOOSE i \in 1..n : place[i] = p]]

\* session.query(Message).filter(Message.conversation_id == conversation_id)
\*        .order_by(Message.message_order).limit(limit).all()
current_rows(st) ==
    LET rows == order_by_message_order(
                    SelectSeq(st.messages,
                              LAMBDA m : m.conversation_id = st.current_conversation_id))
    IN  SubSeq(rows, 1, IF Len(rows) < limit THEN Len(rows) ELSE limit)

\* ConversationManager.get_conversation_history()
get_conversation_history(st) ==
    IF st.current_conversation_id = 0 \/ ~get_session THEN <<>>
    ELSE LET rows == current_rows(st)
         IN  [i \in 1..Len(rows) |->
                Turn(rows[i].role,
                     ConversationManager_clean_tool_result_for_gemini(rows[i].content))]

\* main and run_tool_loop: the history handed to agent.get_llm_response.
provider_history ==
    IF ENABLE_MEMORY
    THEN IF get_conversation_history(Store) # <<>>
         THEN get_conversation_history(Store)
         ELSE clean_history_for_gemini(conversation_history)
    ELSE clean_history_for_gemini(conversation_history)

\* Mutant: the first action is dispatched without the prompt.
main_next_pc_unconfirmed(parsed) ==
    IF ~parsed.ok THEN AWAITING_USER_INPUT
    ELSE IF parsed.tool_name = None THEN AWAITING_USER_INPUT
    ELSE DISPATCHING_TOOL

\* Mutant: the interrupt is handled as any other error of the loop body.
interrupt_is_swallowed == AWAITING_USER_INPUT

\* main, lines 370-372: `break` on KeyboardInterrupt.
interrupt_next_pc == EXITED

\* main: where the first response of a task leads.
main_next_pc(parsed) ==
    IF ~parsed.ok THEN AWAITING_USER_INPUT
    ELSE IF parsed.tool_name = None THEN AWAITING_USER_INPUT
    ELSE AWAITING_CONFIRMATION

\* Mutant: a parse failure is retried.
loop_next_pc_retries(parsed) ==
    IF ~parsed.ok THEN MODEL_CALL_PENDING
    ELSE IF parsed.tool_name \in {None, "ask_followup_question", "attempt_completion"}
         THEN AWAITING_USER_INPUT
    ELSE DISPATCHING_TOOL

\* run_tool_loop: where a response inside the loop leads.
loop_next_pc(parsed) ==
    IF ~parsed.ok THEN AWAITING_USER_INPUT
    ELSE IF parsed.tool_name = None THEN AWAITING_USER_INPUT
    ELSE IF parsed.tool_name = "ask_followup_question" THEN AWAITING_USER_INPUT
    ELSE IF parsed.tool_name = "attempt_completion" THEN AWAITING_USER_INPUT
    ELSE DISPATCHING_TOOL

\* Mutant: `continue` in place of `break`.
loop_provider_error_retries == MODEL_CALL_PENDING

\* run_tool_loop: `break` when the provider call fails.
loop_provider_error_next_pc == AWAITING_USER_INPUT

\* Mutant: a tool call that raised is made again.
loop_dispatch_retries(raised) ==
    IF raised THEN DISPATCHING_TOOL ELSE MODEL_CALL_PENDING

\* Mutant: `break` after a result as well.
loop_dispatch_always_breaks(raised) == AWAITING_USER_INPUT

\* Mutant: no `break` in the except branch.
loop_dispatch_never_breaks(raised) == MODEL_CALL_PENDING

\* run_tool_loop: after the tool call, `break` in the except branch, else
\* the next iteration of `while True`.
loop_dispatch_next_pc(raised) ==
    IF raised THEN AWAITING_USER_INPUT ELSE MODEL_CALL_PENDING

\* main: after the first tool call, run_tool_loop unless it raised.
main_dispatch_next_pc(raised) ==
    IF raised THEN AWAITING_USER_INPUT ELSE MODEL_CALL_PENDING

Init ==
    /\ pc = AWAITING_USER_INPUT
    /\ event = "start"
    /\ ENABLE_MEMORY \in BOOLEAN
    /\ SessionLocal \in (IF ENABLE_MEMORY THEN BOOLEAN ELSE {FALSE})
    /\ SessionProvider
    /\ prior_conversations \in (IF ENABLE_MEMORY /\ SessionLocal
                                 THEN {"nothing", "user_turn"} ELSE {"nothing"})
    /\ project_context = "nothing"
    /\ learning_memory = "nothing"
    /\ conversation_history = <<>>
    /\ history = <<>>
    /\ current_conversation_id = 0
    /\ conversations = <<>>
    /\ fs = UntouchedFiles
    /\ writers = SingleWriter
    /\ cwd = StartDirectory
    /\ stdio = NewStdioClient
    /\ learned = NothingLearned
    /\ task_result = NoTaskResult
    /\ task_manager = NewTaskManager
    /\ called = NothingCalled
    /\ commit = "ok"
    /\ messages = <<>>
    /\ written = NoIntent
    /\ agent_response_text = <<>>
    /\ parsed_response = NotParsed
    /\ tool_name = None
    /\ tool_args = NoParameters
    /\ in_loop = FALSE
    /\ n_inputs = 0
    /\ n_calls = 0

\* main, lines 245-281: the prompt, context enrichment, the user Turn; lines
\* 373-376 when a retrieval source or the save raises.
main_user_input ==
    /\ pc = AWAITING_USER_INPUT
    /\ n_inputs < MaxUserInputs
    /\ \E user_input \in UserTexts :
          LET ctx == RetrievedContexts(Store, user_input)
          IN  IF ~ENABLE_MEMORY
              THEN /\ UNCHANGED store
                   /\ conversation_history' = Append(conversation_history, Turn("user", user_input))
                   /\ pc' = MODEL_CALL_PENDING
                   /\ event' = "user_input"
              ELSE IF \/ source_raises(prior_conversations)
                      \/ source_raises(project_context)
                      \/ source_raises(learning_memory)
                      \/ save_message_raises(Store)
              THEN /\ UNCHANGED store
                   /\ conversation_history' =
                        SubSeq(conversation_history, 1, Len(conversation_history) - 1)
                   /\ pc' = AWAITING_USER_INPUT
                   /\ event' = "main_exception"
              ELSE /\ SetStore(save_message(Store, "user", enriched_input(user_input, ctx), None))
                   /\ conversation_history' =
                        Append(conversation_history, Turn("user", enriched_input(user_input, ctx)))
                   /\ pc' = MODEL_CALL_PENDING
                   /\ event' = "user_input"
    /\ in_loop' = FALSE
    /\ n_inputs' = n_inputs + 1
    /\ UNCHANGED <<config, history, response, invocation, n_calls>>

\* main, lines 247-249 and 370-372: exit, quit or an interrupt at the prompt.
main_exit ==
    /\ pc = AWAITING_USER_INPUT
    /\ \E how \in {"exit", "interrupt"} :
          /\ pc' = (IF how = "interrupt" THEN interrupt_next_pc ELSE EXITED)
          /\ event' = how
    /\ UNCHANGED <<config, history, conversation_history, store, response, invocation,
                   in_loop, n_inputs, n_calls>>

\* main, lines 294-299: the provider call of the first step fails.
main_provider_error ==
    /\ pc = MODEL_CALL_PENDING /\ ~in_loop
    /\ n_calls < MaxModelCalls
    /\ conversation_history' = SubSeq(conversation_history, 1, Len(conversation_history) - 1)
    /\ pc' = AWAITING_USER_INPUT
    /\ event' = "main_provider_error"
    /\ n_calls' = n_calls + 1
    /\ history' = provider_history
    /\ UNCHANGED <<config, store, response, invocation, in_loop, n_inputs>>

\* main, lines 294-322: the first response of a task.
main_first_response ==
    /\ pc = MODEL_CALL_PENDING /\ ~in_loop
    /\ n_calls < MaxModelCalls
    /\ \E w \in ResponseIntents :
          LET text == Render(w)
              parsed == parse_agent_response(text)
          IN  /\ written' = w
              /\ agent_response_text' = text
              /\ parsed_response' = parsed
              /\ IF ENABLE_MEMORY
                 THEN SetStore(save_message(Store, "model", text, None))
                 ELSE UNCHANGED store
              /\ conversation_history' = Append(conversation_history, Turn("model", text))
              /\ tool_name' = parsed.tool_name
              /\ tool_args' = parsed.parameters
              /\ pc' = main_next_pc(parsed)
    /\ event' = "main_model_response"
    /\ n_calls' = n_calls + 1
    /\ history' = provider_history
    /\ UNCHANGED <<config, in_loop, n_inputs>>

\* main, lines 325 and 363-368: the confirmation of the first proposed action.
main_confirm ==
    /\ pc = AWAITING_CONFIRMATION
    /\ \E choice \in {"y", "n"} :
          IF choice = "y"
          THEN /\ pc' = DISPATCHING_TOOL
               /\ event' = "confirmed"
               /\ UNCHANGED conversation_history
          ELSE /\ pc' = AWAITING_USER_INPUT
               /\ event' = "declined"
               /\ conversation_history' =
                    (IF ENABLE_MEMORY THEN conversation_history ELSE <<>>)
    /\ UNCHANGED <<config, history, store, response, invocation, in_loop, n_inputs, n_calls>>

\* main, lines 327-341: the first tool call returns.
main_first_tool_result ==
    /\ pc = DISPATCHING_TOOL /\ ~in_loop
    /\ tool_name \in ToolFunctions
    /\ \E tool_result \in ToolOutputs :
          LET text == tool_result_text(tool_name, tool_result)
          IN  /\ IF ENABLE_MEMORY
                 THEN SetStore(save_message(Store, "user", text, tool_name))
                 ELSE UNCHANGED store
              /\ conversation_history' = Append(conversation_history, Turn("user", text))
    /\ pc' = main_dispatch_next_pc(FALSE)
    /\ in_loop' = (pc' # AWAITING_USER_INPUT)
    /\ event' = "main_tool_result"
    /\ UNCHANGED <<config, history, response, invocation, n_inputs, n_calls>>

\* main, lines 327-329 and 352-362: the first tool call raises.
main_first_tool_error ==
    /\ pc = DISPATCHING_TOOL /\ ~in_loop
    /\ pc' = main_dispatch_next_pc(TRUE)
    /\ in_loop' = (pc' # AWAITING_USER_INPUT)
    /\ event' = "main_tool_error"
    /\ UNCHANGED <<config, history, conversation_history, store, response, invocation,
                   n_inputs, n_calls>>

\* run_tool_loop, lines 136-140: the provider call fails.
loop_provider_error ==
    /\ pc = MODEL_CALL_PENDING /\ in_loop
    /\ n_calls < MaxModelCalls
    /\ pc' = loop_provider_error_next_pc
    /\ in_loop' = (pc' # AWAITING_USER_INPUT)
    /\ event' = "loop_provider_error"
    /\ n_calls' = n_calls + 1
    /\ history' = provider_history
    /\ UNCHANGED <<config, conversation_history, store, response, invocation, n_inputs>>

\* run_tool_loop, lines 136-177, and main, lines 342-350 when it returns
\* "COMPLETED": a response inside the loop.
loop_response ==
    /\ pc = MODEL_CALL_PENDING /\ in_loop
    /\ n_calls < MaxModelCalls
    /\ \E w \in ResponseIntents :
          LET text == Render(w)
              parsed == parse_agent_response(text)
              completed == parsed.ok /\ parsed.tool_name = "attempt_completion"
              saved == save_message(Store, "model", text, None)
          IN  /\ written' = w
              /\ agent_response_text' = text
              /\ parsed_response' = parsed
              /\ SetStore(IF completed THEN complete_conversation(saved) ELSE saved)
              /\ conversation_history' =
                    (IF completed /\ ~ENABLE_MEMORY THEN <<>>
                     ELSE Append(conversation_history, Turn("model", text)))
              /\ tool_name' = parsed.tool_name
              /\ tool_args' = parsed.parameters
              /\ pc' = loop_next_pc(parsed)
    /\ in_loop' = (pc' # AWAITING_USER_INPUT)
    /\ event' = "loop_model_response"
    /\ n_calls' = n_calls + 1
    /\ history' = provider_history
    /\ UNCHANGED <<config, n_inputs>>

\* run_tool_loop, lines 179-197: the tool call returns.
loop_tool_result ==
    /\ pc = DISPATCHING_TOOL /\ in_loop
    /\ tool_name \in ToolFunctions
    /\ \E tool_result \in ToolOutputs :
          LET text == tool_result_text(tool_name, tool_result)
          IN  /\ SetStore(save_message(Store, "user", text, tool_name))
              /\ conversation_history' = Append(conversation_history, Turn("user", text))
    /\ pc' = loop_dispatch_next_pc(FALSE)
    /\ in_loop' = (pc' # AWAITING_USER_INPUT)
    /\ event' = "loop_tool_result"
    /\ UNCHANGED <<config, history, response, invocation, n_inputs, n_calls>>

\* run_tool_loop, lines 179-181 and 199-216: the tool call raises.
loop_tool_error ==
    /\ pc = DISPATCHING_TOOL /\ in_loop
    /\ \E e \in ToolErrors :
          LET text == tool_error_text(tool_name, e)
          IN  /\ SetStore(save_message(Store, "user", text, tool_name))
              /\ conversation_history' = Append(conversation_history, Turn("user", text))
    /\ pc' = loop_dispatch_next_pc(TRUE)
    /\ in_loop' = (pc' # AWAITING_USER_INPUT)
    /\ event' = "loop_tool_error"
    /\ UNCHANGED <<config, history, response, invocation, n_inputs, n_calls>>

Next ==
    \/ main_user_input
    \/ main_exit
    \/ main_provider_error
    \/ main_first_response
    \/ main_confirm
    \/ main_first_tool_result
    \/ main_first_tool_error
    \/ loop_provider_error
    \/ loop_response
    \/ loop_tool_result
    \/ loop_tool_error

Spec == Init /\ [][Next]_vars

----------------------------------------------------------------------------
(* A user turn on its own, over every content of the memory tables: the    *)
(* prompt, the enrichment, the user Turn and the first model call.         *)

InitEnrich ==
    /\ pc = AWAITING_USER_INPUT
    /\ event = "start"
    /\ ENABLE_MEMORY = TRUE
    /\ SessionLocal \in BOOLEAN
    /\ SessionProvider
    /\ prior_conversations \in {"nothing", "user_turn", "tool_result", "fails"}
    /\ project_context \in {"nothing", "info", "match", "info_and_match", "fails"}
    /\ learning_memory \in {"nothing", "match", "fails"}
    /\ ~SessionLocal => FreshMemory
    /\ conversation_history = <<>>
    /\ history = <<>>
    /\ current_conversation_id = 0
    /\ conversations = <<>>
    /\ fs = UntouchedFiles
    /\ writers = SingleWriter
    /\ cwd = StartDirectory
    /\ stdio = NewStdioClient
    /\ learned = NothingLearned
    /\ task_result = NoTaskResult
    /\ task_manager = NewTaskManager
    /\ called = NothingCalled
    /\ commit = "ok"
    /\ messages = <<>>
    /\ written = NoIntent
    /\ agent_response_text = <<>>
    /\ parsed_response = NotParsed
    /\ tool_name = None
    /\ tool_args = NoParameters
    /\ in_loop = FALSE
    /\ n_inputs = 0
    /\ n_calls = 0

NextEnrich ==
    \/ main_user_input
    \/ main_exit
    \/ main_provider_error
    \/ main_first_response

SpecEnrich == InitEnrich /\ [][NextEnrich]_vars

----------------------------------------------------------------------------
(* The session with memory enabled and a store that cannot be written: no  *)
(* session factory, every commit failing, or the first commit failing.     *)

InitPersist ==
    /\ pc = AWAITING_USER_INPUT
    /\ event = "start"
    /\ ENABLE_MEMORY = TRUE
    /\ SessionLocal \in BOOLEAN
    /\ commit \in (IF SessionLocal THEN {"fails", "fails_once"} ELSE {"ok"})
    /\ SessionProvider
    /\ FreshMemory
    /\ conversation_history = <<>>
    /\ history = <<>>
    /\ current_conversation_id = 0
    /\ conversations = <<>>
    /\ fs = UntouchedFiles
    /\ writers = SingleWriter
    /\ cwd = StartDirectory
    /\ stdio = NewStdioClient
    /\ learned = NothingLearned
    /\ task_result = NoTaskResult
    /\ task_manager = NewTaskManager
    /\ called = NothingCalled
    /\ messages = <<>>
    /\ written = NoIntent
    /\ agent_response_text = <<>>
    /\ parsed_response = NotParsed
    /\ tool_name = None
    /\ tool_args = NoParameters
    /\ in_loop = FALSE
    /\ n_inputs = 0
    /\ n_calls = 0

SpecPersist == InitPersist /\ [][Next]_vars

----------------------------------------------------------------------------
(* The parser on its own: a response is written, possibly damaged (cut     *)
(* short, or one symbol lost), and parsed.                                 *)

ValueAlphabet == {Ch("x"), Blank, Amp, Lt, Gt}

Values == UNION {[1..n -> ValueAlphabet] : n \in 0..MaxValueLen}

\* A "<" directly before a letter run would lex as a tag.
Lexed(v) == \A i \in 1..(Len(v) - 1) : ~(v[i] = Lt /\ v[i + 1] = Ch("x"))

ToolParams == {<<"read_file", "path">>, <<"execute_command", "command">>}

ParseIntents ==
    {Intent("action", th, tp[1], tp[2], v, esc, f, 0) :
        th \in BOOLEAN, tp \in ToolParams, v \in {u \in Values : Lexed(u)},
        esc \in BOOLEAN, f \in BOOLEAN}

RESPONSE_RECEIVED == "RESPONSE_RECEIVED"
PARSED == "PARSED"

InitParse ==
    /\ pc = RESPONSE_RECEIVED
    /\ event = "written"
    /\ ENABLE_MEMORY = FALSE
    /\ SessionLocal = FALSE
    /\ SessionProvider
    /\ FreshMemory
    /\ conversation_history = <<>>
    /\ history = <<>>
    /\ current_conversation_id = 0
    /\ conversations = <<>>
    /\ fs = UntouchedFiles
    /\ writers = SingleWriter
    /\ cwd = StartDirectory
    /\ stdio = NewStdioClient
    /\ learned = NothingLearned
    /\ task_result = NoTaskResult
    /\ task_manager = NewTaskManager
    /\ called = NothingCalled
    /\ commit = "ok"
    /\ messages = <<>>
    /\ written \in ParseIntents
    /\ agent_response_text = Render(written)
    /\ parsed_response = NotParsed
    /\ tool_name = None
    /\ tool_args = NoParameters
    /\ in_loop = FALSE
    /\ n_inputs = 0
    /\ n_calls = 0

loop_state == <<config, history, conversation_history, store, invocation, in_loop, n_inputs, n_calls>>

\* The provider's output stops early.
response_truncated ==
    /\ pc = RESPONSE_RECEIVED /\ event = "written"
    /\ \E i \in 1..(Len(agent_response_text) - 1) :
          agent_response_text' = SubSeq(agent_response_text, 1, i)
    /\ written' = [written EXCEPT !.kind = "damaged"]
    /\ event' = "truncated"
    /\ UNCHANGED <<pc, parsed_response, loop_state>>

\* The model leaves out one tag or character.
response_symbol_lost ==
    /\ pc = RESPONSE_RECEIVED /\ event = "written"
    /\ \E i \in 1..Len(agent_response_text) :
          agent_response_text' =
              SubSeq(agent_response_text, 1, i - 1)
              \o SubSeq(agent_response_text, i + 1, Len(agent_response_text))
    /\ written' = [written EXCEPT !.kind = "damaged"]
    /\ event' = "symbol_lost"
    /\ UNCHANGED <<pc, parsed_response, loop_state>>

\* parsed_response = parse_agent_response(agent_response_text)
response_parsed ==
    /\ pc = RESPONSE_RECEIVED
    /\ parsed_response' = parse_agent_response(agent_response_text)
    /\ pc' = PARSED
    /\ UNCHANGED <<event, written, agent_response_text, loop_state>>

NextParse ==
    \/ response_truncated
    \/ response_symbol_lost
    \/ response_parsed

SpecParse == InitParse /\ [][NextParse]_vars

\* Well-formedness of a document, read off the grammar: tags nest and match,
\* one document element, "&" only in an entity reference, no bare "<".
RECURSIVE WellFormedFrom(_, _, _)
WellFormedFrom(text, i, stack) ==
    IF i > Len(text) THEN stack = <<>> /\ i > 1
    ELSE LET s == text[i]
         IN  IF stack = <<>> /\ i > 1 THEN s = Blank /\ WellFormedFrom(text, i + 1, stack)
             ELSE IF s.k = "open" THEN WellFormedFrom(text, i + 1, Append(stack, s.n))
             ELSE IF s.k = "close"
                  THEN /\ stack # <<>>
                       /\ stack[Len(stack)] = s.n
                       /\ WellFormedFrom(text, i + 1, SubSeq(stack, 1, Len(stack) - 1))
             ELSE IF s = Lt THEN FALSE
             ELSE IF s = Amp
                  THEN /\ i + 2 <= Len(text)
                       /\ text[i + 1].k = "ch"
                       /\ text[i + 1].n \in {"amp", "lt", "gt", "quot", "apos", "#x27"}
                       /\ text[i + 2] = Semi
                       /\ WellFormedFrom(text, i + 3, stack)
             ELSE stack # <<>> /\ WellFormedFrom(text, i + 1, stack)

WellFormed(text) == WellFormedFrom(<<O("root")>> \o text \o <<C("root")>>, 1, <<>>)

----------------------------------------------------------------------------
(* Properties of the control loop (specification Spec) *)

ReservedTools == {"ask_followup_question", "attempt_completion"}
ToolResultEvents == {"main_tool_result", "loop_tool_result"}
ToolErrorEvents == {"main_tool_error", "loop_tool_error"}
ModelResponseEvents == {"main_model_response", "loop_model_response"}
ProviderErrorEvents == {"main_provider_error", "loop_provider_error"}
ModelCallEvents == ModelResponseEvents \cup ProviderErrorEvents
PromptEvents == {"user_input", "exit", "interrupt"}

ResultTurns(tool) == {Turn("user", tool_result_text(tool, r)) : r \in ToolOutputs}
ErrorTurns(tool) == {Turn("user", tool_error_text(tool, e)) : e \in ToolErrors}
ModelTurns(h) == SelectSeq(h, LAMBDA t : t.role = "model")

\* C1: a step in which a non-reserved tool returns a result appends the
\* result Turn and leaves the loop in MODEL_CALL_PENDING, and the step that
\* follows is the next model call, not a prompt.
C1_ToolResultContinues ==
    [][ /\ (event' \in ToolResultEvents /\ tool_name \notin ReservedTools
              => /\ pc' = MODEL_CALL_PENDING
                 /\ \E t \in ResultTurns(tool_name) :
                       conversation_history' = Append(conversation_history, t))
        /\ (event \in ToolResultEvents /\ tool_name \notin ReservedTools
              => event' \in ModelCallEvents)
      ]_vars

C1_Witness ==
    /\ event = "loop_tool_result"
    /\ tool_name = "list_files"
    /\ pc = MODEL_CALL_PENDING
    /\ conversation_history[Len(conversation_history)] \in ResultTurns("list_files")

C3_DispatchAppendsOneTurn ==
    [][ event' \in ToolResultEvents \cup ToolErrorEvents
          => \E t \in ResultTurns(tool_name) \cup ErrorTurns(tool_name) :
                conversation_history' = Append(conversation_history, t)
      ]_vars

\* C4: after any model response whose action is the clarifying question the
\* loop waits for the user, and the next step is the user's.
C4_QuestionHalts ==
    [][ /\ (event' \in ModelResponseEvents
            /\ parsed_response'.tool_name = "ask_followup_question"
              => pc' = AWAITING_USER_INPUT)
        /\ (event \in ModelResponseEvents
            /\ parsed_response.tool_name = "ask_followup_question"
              => event' \in PromptEvents)
      ]_vars

\* C5: after any model response whose action is the completion action the
\* current Conversation is completed and the loop waits for a new task.
C5_CompletionFinalizes ==
    event \in ModelResponseEvents /\ parsed_response.tool_name = "attempt_completion"
        => /\ pc = AWAITING_USER_INPUT
           /\ current_conversation_id # 0
                => conversations[current_conversation_id].status = "completed"

\* C6: a step in which the provider call fails ends the run: no model Turn
\* is added to either history, nothing is dispatched, and the step that
\* follows is a user input.
C6_ProviderErrorEndsRun ==
    [][ /\ (event' \in ProviderErrorEvents
              => /\ pc' = AWAITING_USER_INPUT
                 /\ ModelTurns(conversation_history') = ModelTurns(conversation_history)
                 /\ Len(conversation_history') <= Len(conversation_history)
                 /\ messages' = messages)
        /\ (event \in ProviderErrorEvents => event' \in PromptEvents)
      ]_vars

C6_Witness ==
    /\ event = "loop_provider_error"
    /\ pc = AWAITING_USER_INPUT
    /\ n_calls >= 2

\* C7: a response that cannot be parsed halts the turn: the loop is back at
\* the prompt with nothing dispatched, and the step that follows is a user
\* input, not another model call.
C7_ParseErrorHalts ==
    [][ /\ (event' \in ModelResponseEvents /\ ~parsed_response'.ok
              => pc' = AWAITING_USER_INPUT)
        /\ (event \in ModelResponseEvents /\ ~parsed_response.ok
              => event' \in PromptEvents)
      ]_vars

C7_Witness ==
    /\ event = "loop_model_response"
    /\ ~parsed_response.ok
    /\ ~WellFormed(agent_response_text)
    /\ pc = AWAITING_USER_INPUT

----------------------------------------------------------------------------
(* Properties of the parser (specification SpecParse) *)

\* C8: a response written as an optional reasoning block and one action
\* block, its parameter value escaped as the system prompt asks, parses to
\* the tool name and the parameter with the original value, trimmed.
C8_ParserReturnsWrittenInvocation ==
    pc = PARSED /\ written.kind = "action" /\ written.escaped
        => parsed_response =
             [ok |-> TRUE,
              thinking |-> (IF written.thinking THEN <<Ch("plan")>> ELSE <<>>),
              tool_name |-> written.tool,
              parameters |-> [n \in {written.param} |-> strip(written.value)]]

\* C10 as stated: markup that is malformed or unclosed gives a parse failure.
C10_MalformedFails ==
    pc = PARSED /\ ~WellFormed(agent_response_text) => parsed_response = ParseFailure

\* C10 as amended: markup that is still malformed or unclosed after the
\* code fences are stripped and the command, result, question and answer
\* fields are escaped gives a parse failure, and no tool name.
C10_MalformedAfterEscapingFails ==
    pc = PARSED /\ ~WellFormed(sanitize(strip_fences(agent_response_text), 1))
        => parsed_response = ParseFailure

C10_Witness ==
    /\ pc = PARSED
    /\ event = "truncated"
    /\ ~WellFormed(sanitize(strip_fences(agent_response_text), 1))
    /\ parsed_response = ParseFailure

----------------------------------------------------------------------------
(* The conversation store on its own: Turns are saved into the current     *)
(* conversation and the history is read back.                              *)

\* Saves per conversation.
MaxSaves == 52
\* The roles of the first RolePeriod saves are free; later saves repeat them.
RolePeriod == 3

STORE == "STORE"

Roles == {"user", "model"}

InitStore ==
    /\ pc = STORE
    /\ event = "start"
    /\ ENABLE_MEMORY = TRUE
    /\ SessionLocal \in BOOLEAN
    /\ SessionProvider
    /\ FreshMemory
    /\ conversation_history = <<>>
    /\ history = <<>>
    /\ current_conversation_id = 0
    /\ conversations = <<>>
    /\ fs = UntouchedFiles
    /\ writers = SingleWriter
    /\ cwd = StartDirectory
    /\ stdio = NewStdioClient
    /\ learned = NothingLearned
    /\ task_result = NoTaskResult
    /\ task_manager = NewTaskManager
    /\ called = NothingCalled
    /\ commit = "ok"
    /\ messages = <<>>
    /\ written = NoIntent
    /\ agent_response_text = <<>>
    /\ parsed_response = NotParsed
    /\ tool_name = None
    /\ tool_args = NoParameters
    /\ in_loop = FALSE
    /\ n_inputs = 0
    /\ n_calls = 0

\* conversation_manager.save_message(role, content)
store_save_message ==
    /\ pc = STORE
    /\ Len(messages) < MaxSaves
    /\ \E role \in Roles :
          /\ Len(messages) >= RolePeriod => role = messages[Len(messages) + 1 - RolePeriod].role
          /\ SetStore(save_message(Store, role, <<Ch(ToString(Len(messages) + 1))>>, None))
    /\ event' = "save_message"
    /\ UNCHANGED <<pc, config, conversation_history, history, response, invocation,
                   in_loop, n_inputs, n_calls>>

\* history = conversation_manager.get_conversation_history()
store_get_conversation_history ==
    /\ pc = STORE
    /\ history' = get_conversation_history(Store)
    /\ event' = "get_conversation_history"
    /\ UNCHANGED <<pc, config, conversation_history, store, response, invocation,
                   in_loop, n_inputs, n_calls>>

NextStore ==
    \/ store_save_message
    \/ store_get_conversation_history

SpecStore == InitStore /\ [][NextStore]_vars

\* The Turns saved so far, as saved.
SavedTurns == [i \in 1..Len(messages) |-> Turn(messages[i].role, messages[i].content)]

\* C12: after any sequence of save_message calls on the current conversation,
\* get_conversation_history returns every saved Turn, in the order saved, each
\* with the role it was saved with.
C12_HistoryReturnsEverySavedTurn ==
    [][event' = "get_conversation_history" =>
         /\ Len(history') = Len(SavedTurns)
         /\ \A i \in 1..Len(SavedTurns) : history'[i].role = SavedTurns[i].role]_vars

----------------------------------------------------------------------------
(* The normaliser on its own: a Turn is saved, read back, and the history  *)
(* read back is normalised once more.                                      *)

\* How deep a tool's output quotes earlier tool-result Turns (a log, an
\* export of the conversation, a model echoing what it was sent).
MaxNesting == 2

DropSymbol(text, i) == SubSeq(text, 1, i - 1) \o SubSeq(text, i + 1, Len(text))

RECURSIVE QuotedTurns(_)
QuotedTurns(depth) ==
    IF depth = 0 THEN {<<Ch("ok")>>, <<Ch("a"), NL, Ch("b")>>}
    ELSE LET inner == QuotedTurns(depth - 1)
         IN  inner
             \cup {tool_result_text("read_file", c) : c \in inner}
             \cup {tool_error_text("read_file", c) : c \in inner}

\* The texts saved as Turns: the above, whole or with one symbol lost.
NormalizerContents ==
    UNION {{c} \cup {DropSymbol(c, i) : i \in 1..Len(c)} : c \in QuotedTurns(MaxNesting)}

NORMALIZE == "NORMALIZE"

InitNormalize ==
    /\ pc = NORMALIZE
    /\ event = "start"
    /\ ENABLE_MEMORY = TRUE
    /\ SessionLocal = TRUE
    /\ SessionProvider
    /\ FreshMemory
    /\ conversation_history = <<>>
    /\ history = <<>>
    /\ current_conversation_id = 0
    /\ conversations = <<>>
    /\ fs = UntouchedFiles
    /\ writers = SingleWriter
    /\ cwd = StartDirectory
    /\ stdio = NewStdioClient
    /\ learned = NothingLearned
    /\ task_result = NoTaskResult
    /\ task_manager = NewTaskManager
    /\ called = NothingCalled
    /\ commit = "ok"
    /\ messages = <<>>
    /\ written = NoIntent
    /\ agent_response_text = <<>>
    /\ parsed_response = NotParsed
    /\ tool_name = None
    /\ tool_args = NoParameters
    /\ in_loop = FALSE
    /\ n_inputs = 0
    /\ n_calls = 0

\* conversation_manager.save_message("user", content)
normalize_save_message ==
    /\ pc = NORMALIZE
    /\ messages = <<>>
    /\ \E content \in NormalizerContents :
          /\ SetStore(save_message(Store, "user", content, None))
          /\ conversation_history' = <<Turn("user", content)>>
    /\ event' = "save_message"
    /\ UNCHANGED <<pc, config, history, response, invocation, in_loop, n_inputs, n_calls>>

\* history = conversation_manager.get_conversation_history()
normalize_get_conversation_history ==
    /\ pc = NORMALIZE
    /\ messages # <<>>
    /\ history' = get_conversation_history(Store)
    /\ event' = "get_conversation_history"
    /\ UNCHANGED <<pc, config, conversation_history, store, response, invocation,
                   in_loop, n_inputs, n_calls>>

\* history = clean_history_for_gemini(history)
normalize_clean_history ==
    /\ pc = NORMALIZE
    /\ history # <<>>
    /\ history' = clean_history_for_gemini(history)
    /\ event' = "clean_history_for_gemini"
    /\ UNCHANGED <<pc, config, conversation_history, store, response, invocation,
                   in_loop, n_inputs, n_calls>>

NextNormalize ==
    \/ normalize_save_message
    \/ normalize_get_conversation_history
    \/ normalize_clean_history

SpecNormalize == InitNormalize /\ [][NextNormalize]_vars

\* C13: normalisation of tool-result framing is deterministic and idempotent:
\* reading the same stored Turn twice gives the same text, and normalising a
\* text that was read back (already normalised) returns it unchanged.
C13_NormalizationIsIdempotent ==
    [][event = "get_conversation_history"
       /\ event' \in {"get_conversation_history", "clean_history_for_gemini"}
       => history' = history]_vars

----------------------------------------------------------------------------
(* The history passed to the provider *)

\* The tool names the model responses of the control loop carry.
ToolNames == {w.tool : w \in ResponseIntents} \ {None}

\* The Turns, as saved, that provider_history is computed from.
history_source ==
    IF ENABLE_MEMORY /\ get_conversation_history(Store) # <<>>
    THEN [i \in 1..Len(current_rows(Store)) |->
            Turn(current_rows(Store)[i].role, current_rows(Store)[i].content)]
    ELSE conversation_history

\* C11: no history passed to the provider holds a Turn that carries the raw
\* <tool_result>...</tool_result> framing; every tool-result or tool-error
\* Turn is sent as the plain text "Tool: X / Result: Y" (or "Error: Y") with
\* the full result, from the store and from the in-memory fallback alike.
C11_ProviderHistoryIsPlain ==
    [][event' \in ModelCallEvents =>
         /\ Len(history') = Len(history_source)
         /\ \A i \in 1..Len(history_source) :
               /\ ~is_tool_result(history'[i].text)
               /\ \A t \in ToolNames :
                     /\ \A r \in ToolOutputs :
                           history_source[i].text = tool_result_text(t, r)
                           => history'[i].text = plain_result(<<Ch(t)>>, "Result: ", r)
                     /\ \A e \in ToolErrors :
                           history_source[i].text = tool_error_text(t, e)
                           => history'[i].text =
                                plain_result(<<Ch(t)>>, "Error: ", error_message(t, e))]_vars

----------------------------------------------------------------------------
(* Provider selection *)

Configures(name) == name \in ProviderNames /\ adapters[name] = "configured"

\* The first adapter in priority order that configures, None if there is none.
FirstConfigured ==
    LET hits == {i \in 1..Len(PriorityOrder) : Configures(PriorityOrder[i])}
    IN  IF hits = {} THEN None ELSE PriorityOrder[First(hits)]

SelectionDone == pc \in {SELECTED, STARTUP_FAILED}

\* C14: if the preferred setting names an adapter that configures, that adapter
\* is selected; otherwise the first adapter in the priority order (gemini,
\* openai, groq, openrouter, deepseek, mistral, ollama, vertex, xai) that
\* configures is selected.
C14_PreferredElseFirstInPriority ==
    SelectionDone =>
        IF Configures(PREFERRED_LLM_PROVIDER)
        THEN pc = SELECTED /\ current_provider = PREFERRED_LLM_PROVIDER
        ELSE FirstConfigured # None => pc = SELECTED /\ current_provider = FirstConfigured

\* C15: when exactly one adapter K configures, the selector returns K,
\* whatever K's position and whatever the preferred setting; when no adapter
\* configures, selection raises a fatal error and no provider handle exists.
C15_OnlyConfiguredAdapterIsSelected ==
    SelectionDone =>
        /\ \A K \in ProviderNames :
              {name \in ProviderNames : Configures(name)} = {K}
              => pc = SELECTED /\ current_provider = K
        /\ {name \in ProviderNames : Configures(name)} = {}
              => pc = STARTUP_FAILED /\ current_provider = None

\* C16: an adapter that fails to load or to configure, with any kind of
\* error, is skipped and the next adapter in priority order is tried.
C16_FailedAdapterIsSkipped ==
    [][pc = SELECTING /\ event' \in ProviderNames /\ ~Configures(event')
       => pc' = SELECTING /\ key' = key + 1]_vars

----------------------------------------------------------------------------
(* Context enrichment *)

Last(seq) == seq[Len(seq)]

\* The results of the three sources for the input, in the order
\* conversation, project, learned patterns, the empty ones left out.
NonEmptySnippets(user_input) ==
    SelectSeq(<<ConversationManager_get_context_for_query(Store, user_input),
                ContextManager_get_context_for_query,
                LearningEngine_get_context_for_query>>,
              LAMBDA snippet : snippet # <<>>)

\* The raw input followed by those snippets.
InputWithSnippets(user_input) ==
    IF NonEmptySnippets(user_input) = <<>> THEN user_input
    ELSE IF Len(NonEmptySnippets(user_input)) = 1
         THEN user_input \o <<NL, NL>> \o NonEmptySnippets(user_input)[1]
    ELSE IF Len(NonEmptySnippets(user_input)) = 2
         THEN user_input \o <<NL, NL>> \o NonEmptySnippets(user_input)[1]
              \o <<NL>> \o NonEmptySnippets(user_input)[2]
    ELSE user_input \o <<NL, NL>> \o NonEmptySnippets(user_input)[1]
         \o <<NL>> \o NonEmptySnippets(user_input)[2]
         \o <<NL>> \o NonEmptySnippets(user_input)[3]

\* C17: with memory enabled, the content of a user Turn is the raw input
\* followed by the snippets of exactly the sources that returned something,
\* in the order conversation, project, learned patterns, and this same text
\* is what is persisted as the Turn's content and what is sent to the
\* provider.
C17_EnrichedTextPersistedAndSent ==
    [][IF ENABLE_MEMORY /\ event' = "user_input"
       THEN \E user_input \in UserTexts :
               /\ Last(conversation_history').text = InputWithSnippets(user_input)
               /\ get_session =>
                     /\ messages' # messages
                     /\ Last(messages').role = "user"
                     /\ Last(messages').content = InputWithSnippets(user_input)
       ELSE (ENABLE_MEMORY /\ event = "user_input" /\ event' \in ModelCallEvents)
            => Last(history') = Last(conversation_history)]_vars

ConversationHeader == Ch("Informacion de conversaciones anteriores:")
ProjectHeader == Ch("Informacion del proyecto 'bytecrafter':")
LearnedHeader == Ch("Aprendizajes relevantes:")

Occurs(sym, text) == \E i \in 1..Len(text) : text[i] = sym

\* The input followed by one block, the one of the conversation source.
OnlyConversationBlock(user_input) ==
    user_input \o <<NL, NL>> \o ConversationManager_get_context_for_query(Store, user_input)

C19_RetrievalIsBestEffort ==
    [][IF pc = AWAITING_USER_INPUT /\ n_inputs' # n_inputs
       THEN /\ event' = "user_input"
            /\ pc' = MODEL_CALL_PENDING
            /\ Len(conversation_history') = Len(conversation_history) + 1
            /\ Last(conversation_history').role = "user"
            /\ \A user_input \in UserTexts :
                  /\ search_conversations(Store, user_input) = <<>>
                     => ~Occurs(ConversationHeader, Last(conversation_history').text)
                  /\ project_context \in {"nothing", "fails"}
                     => ~Occurs(ProjectHeader, Last(conversation_history').text)
                  /\ learning_memory \in {"nothing", "fails"}
                     => ~Occurs(LearnedHeader, Last(conversation_history').text)
       ELSE event = "user_input" => event' \in ModelCallEvents]_vars

C19_Witness ==
    /\ event \in ModelResponseEvents
    /\ prior_conversations = "fails"
    /\ project_context = "fails"
    /\ learning_memory = "match"
    /\ Len(conversation_history) = 2
    /\ Occurs(LearnedHeader, conversation_history[1].text)
    /\ ~Occurs(ConversationHeader, conversation_history[1].text)
    /\ ~Occurs(ProjectHeader, conversation_history[1].text)

\* The write of the step about to be taken fails.
PersistFails == ENABLE_MEMORY /\ (~SessionLocal \/ commit # "ok")

\* C20: when persisting a Turn fails, because the store is unavailable or the
\* save raises an error, the loop is not aborted: the Turn is appended to the
\* history in memory, the run continues and the next step is the model call.
C20_PersistFailureDoesNotAbort ==
    [][IF PersistFails /\ ( \/ pc = AWAITING_USER_INPUT /\ n_inputs' # n_inputs
                            \/ event' \in ToolResultEvents /\ tool_name \notin ReservedTools)
       THEN /\ messages' = messages
            /\ event' \in {"user_input"} \cup ToolResultEvents
            /\ Len(conversation_history') = Len(conversation_history) + 1
            /\ pc' = MODEL_CALL_PENDING
       ELSE (/\ ENABLE_MEMORY
             /\ event \in {"user_input"} \cup ToolResultEvents
             /\ pc = MODEL_CALL_PENDING
             /\ (messages = <<>> \/ Last(messages).content # Last(conversation_history).text))
            => event' \in ModelCallEvents]_vars

C20_Witness ==
    /\ event \in ModelResponseEvents
    /\ ENABLE_MEMORY /\ SessionLocal /\ commit = "fails"
    /\ messages = <<>>
    /\ n_calls = 2
    /\ \E i \in 1..Len(conversation_history) :
          conversation_history[i] \in ResultTurns("list_files")

ConfirmationEvents == {"confirmed", "declined"}
MainDispatchEvents == {"main_tool_result", "main_tool_error"}
LoopDispatchEvents == {"loop_tool_result", "loop_tool_error"}

\* C21: confirmation is requested exactly once per task, for the first
\* proposed action: the prompt follows the first response to a user input and
\* nothing else, that action is dispatched only after "y", after "n" nothing is
\* dispatched and the loop is not entered, and every action proposed inside
\* the loop is dispatched with no prompt.
C21_OneConfirmationPerTask ==
    [][ /\ (event' = "main_model_response"
              => /\ event = "user_input"
                 /\ (pc' = AWAITING_CONFIRMATION
                       <=> parsed_response'.ok /\ tool_name' # None))
        /\ (pc' = AWAITING_CONFIRMATION => event' = "main_model_response" /\ ~in_loop')
        /\ (pc = AWAITING_CONFIRMATION => event' \in ConfirmationEvents)
        /\ (event' \in ConfirmationEvents => event = "main_model_response")
        /\ (event' = "declined"
              => pc' = AWAITING_USER_INPUT /\ ~in_loop' /\ UNCHANGED <<store, n_calls>>)
        /\ (event = "declined" => event' \in {"user_input", "exit", "interrupt"})
        /\ (event' \in MainDispatchEvents => event = "confirmed")
        /\ (event = "confirmed" => event' \in MainDispatchEvents)
        /\ (event' \in LoopDispatchEvents => event = "loop_model_response" /\ in_loop)
        /\ (event = "loop_model_response" /\ pc = DISPATCHING_TOOL
              => event' \in LoopDispatchEvents)
      ]_vars

C21_Witness ==
    /\ event = "loop_tool_result"
    /\ n_inputs = 1
    /\ n_calls = 2
    /\ in_loop
    /\ Len(conversation_history) = 5

DispatchEvents == MainDispatchEvents \cup LoopDispatchEvents

\* C22: a parsed invocation is dispatched at most once: a dispatch is the
\* step after the model response that produced the invocation (after its
\* confirmation, for the first one), and after a dispatch, whether it returned
\* or raised, nothing is dispatched before a new model response.
C22_DispatchAtMostOnce ==
    [][ /\ (event' \in DispatchEvents
              => /\ pc = DISPATCHING_TOOL
                 /\ pc' # DISPATCHING_TOOL
                 /\ event \in {"confirmed", "loop_model_response"}
                 /\ parsed_response.ok /\ parsed_response.tool_name = tool_name
                 /\ UNCHANGED <<invocation, response, n_calls>>)
        /\ (event \in DispatchEvents => event' \notin DispatchEvents \cup ConfirmationEvents)
        /\ (pc' = DISPATCHING_TOOL
              => event' \in {"confirmed", "loop_model_response"})
      ]_vars

C22_Witness ==
    /\ event = "loop_tool_error"
    /\ pc = AWAITING_USER_INPUT
    /\ tool_name = "list_files"
    /\ n_calls = 2

\* The positions in table messages of the Turns of conversation id.
TurnsOf(id) == {i \in 1..Len(messages) : messages[i].conversation_id = id}

\* C23: with one writer, save_message gives a new Turn the highest sequence
\* number of its Conversation plus one, 1 for the first one, so the sequence
\* numbers of a Conversation increase strictly in insertion order and none
\* occurs twice.
C23_SequenceNumbersIncrease ==
    \A id \in 1..Len(conversations) :
        \A i \in TurnsOf(id) :
            LET earlier == {messages[j].message_order : j \in {k \in TurnsOf(id) : k < i}}
            IN  /\ messages[i].message_order = (IF earlier = {} THEN 1 ELSE Max(earlier) + 1)
                /\ \A j \in TurnsOf(id) : j < i =>
                       messages[j].message_order < messages[i].message_order

C23_Witness ==
    /\ Len(messages) = 3
    /\ messages[3].message_order = 3
    /\ messages[3].conversation_id = messages[1].conversation_id

----------------------------------------------------------------------------
(* save_message called by several writers that hold the same                *)
(* current_conversation_id and share the store: each call opens its own    *)
(* session, reads the last message, then adds its row and commits.         *)

Writers == 2
MaxWriterSaves == 3
WRITING == "WRITING"

InitWriters ==
    /\ pc = WRITING
    /\ event = "start"
    /\ ENABLE_MEMORY = TRUE
    /\ SessionLocal = TRUE
    /\ SessionProvider
    /\ FreshMemory
    /\ conversation_history = <<>>
    /\ history = <<>>
    /\ current_conversation_id = 1
    /\ conversations = <<[status |-> "active"]>>
    /\ fs = UntouchedFiles
    /\ writers = [w \in 1..Writers |-> [at |-> "idle", next_order |-> 0, saves |-> 0]]
    /\ cwd = StartDirectory
    /\ stdio = NewStdioClient
    /\ learned = NothingLearned
    /\ task_result = NoTaskResult
    /\ task_manager = NewTaskManager
    /\ called = NothingCalled
    /\ commit = "ok"
    /\ messages = <<>>
    /\ written = NoIntent
    /\ agent_response_text = <<>>
    /\ parsed_response = NotParsed
    /\ tool_name = None
    /\ tool_args = NoParameters
    /\ in_loop = FALSE
    /\ n_inputs = 0
    /\ n_calls = 0

writers_frame == <<fs, ENABLE_MEMORY, SessionLocal, PREFERRED_LLM_PROVIDER, adapters, key,
                   current_provider, prior_conversations, project_context, learning_memory,
                   conversation_history, history, response, invocation, in_loop,
                   n_inputs, n_calls, current_conversation_id, conversations, commit, called, task_manager, task_result, learned, stdio, cwd>>

\* save_message, lines 55-65: the session and the query for the last message.
writer_read_last_message(w) ==
    /\ pc = WRITING
    /\ writers[w].at = "idle"
    /\ writers[w].saves < MaxWriterSaves
    /\ LET orders == {messages[i].message_order :
                         i \in {j \in 1..Len(messages) :
                                  messages[j].conversation_id = current_conversation_id}}
       IN  writers' = [writers EXCEPT ![w].at = "read", ![w].next_order = next_order(orders)]
    /\ event' = "read_last_message"
    /\ UNCHANGED <<pc, messages, writers_frame>>

\* save_message, lines 67-81: the new row with next_order, and the commit.
writer_commit_message(w) ==
    /\ pc = WRITING
    /\ writers[w].at = "read"
    /\ messages' = Append(messages,
                          [conversation_id |-> current_conversation_id, role |-> "user",
                           content |-> <<Ch(ToString(w))>>, tool_name |-> None,
                           message_order |-> writers[w].next_order])
    /\ writers' = [writers EXCEPT ![w].at = "idle", ![w].saves = @ + 1]
    /\ event' = "commit_message"
    /\ UNCHANGED <<pc, writers_frame>>

NextWriters ==
    \E w \in 1..Writers :
        \/ writer_read_last_message(w)
        \/ writer_commit_message(w)

SpecWriters == InitWriters /\ [][NextWriters]_vars

\* C24: when two writers interleave save_message on the same Conversation,
\* no two Turns of the Conversation get the same sequence number.
C24_NoDuplicateSequenceNumbers ==
    \A id \in 1..Len(conversations) :
        \A i, j \in TurnsOf(id) :
            i # j => messages[i].message_order # messages[j].message_order

----------------------------------------------------------------------------
(* database.cleanup_old_data over a store that holds conversations of      *)
(* earlier sessions, each with its Turns.  updated_at is kept as its side  *)
(* of the cutoff; an UPDATE sets it to the current time (onupdate).        *)

MaxConversations == 3
CLEANUP == "CLEANUP"
Statuses == {"active", "completed", "archived"}
StoredConversations ==
    [status : Statuses, updated_at : {"before_cutoff", "after_cutoff"}]
ConversationTables ==
    UNION {[1..n -> StoredConversations] : n \in 0..MaxConversations}

InitCleanup ==
    /\ pc = CLEANUP
    /\ event = "start"
    /\ ENABLE_MEMORY = TRUE
    /\ SessionLocal \in BOOLEAN
    /\ SessionProvider
    /\ FreshMemory
    /\ conversation_history = <<>>
    /\ history = <<>>
    /\ current_conversation_id = 0
    /\ conversations \in ConversationTables
    /\ fs = UntouchedFiles
    /\ writers = SingleWriter
    /\ cwd = StartDirectory
    /\ stdio = NewStdioClient
    /\ learned = NothingLearned
    /\ task_result = NoTaskResult
    /\ task_manager = NewTaskManager
    /\ called = NothingCalled
    /\ commit \in {"ok", "fails"}
    /\ messages = [i \in 1..Len(conversations) |->
                      [conversation_id |-> i, role |-> "user",
                       content |-> <<Ch("list files in .")>>, tool_name |-> None,
                       message_order |-> 1]]
    /\ written = NoIntent
    /\ agent_response_text = <<>>
    /\ parsed_response = NotParsed
    /\ tool_name = None
    /\ tool_args = NoParameters
    /\ in_loop = FALSE
    /\ n_inputs = 0
    /\ n_calls = 0

\* Mutant: the old conversations are deleted.
delete_old_conversations(table) ==
    SelectSeq(table, LAMBDA c : ~(c.status = "active" /\ c.updated_at = "before_cutoff"))

\* cleanup_old_data, lines 167-170: UPDATE conversations SET status =
\* 'archived' WHERE updated_at < cutoff AND status = 'active'.
archive_old_conversations(table) ==
    [i \in 1..Len(table) |->
        IF table[i].status = "active" /\ table[i].updated_at = "before_cutoff"
        THEN [status |-> "archived", updated_at |-> "after_cutoff"]
        ELSE table[i]]

\* cleanup_old_data(retention_days)
cleanup_old_data ==
    /\ pc = CLEANUP
    /\ IF ~get_session
       THEN /\ event' = "cleanup_without_session"
            /\ UNCHANGED conversations
       ELSE IF commit # "ok"
       THEN /\ event' = "cleanup_rolled_back"
            /\ UNCHANGED conversations
       ELSE /\ event' = "cleanup_old_data"
            /\ conversations' = archive_old_conversations(conversations)
    /\ UNCHANGED <<pc, config, conversation_history, history, response, invocation,
                   in_loop, n_inputs, n_calls, current_conversation_id, messages, commit>>

NextCleanup == cleanup_old_data

SpecCleanup == InitCleanup /\ [][NextCleanup]_vars

CleanupEvents == {"cleanup_without_session", "cleanup_rolled_back", "cleanup_old_data"}

\* C25: the retention cleanup deletes no Conversation and no Turn: it sets
\* the status of the active conversations last updated before the cutoff to
\* archived, and leaves the completed ones, the newer active ones and every
\* Turn as they were.
C25_CleanupOnlyArchives ==
    [][event' \in CleanupEvents
         => /\ messages' = messages
            /\ Len(conversations') = Len(conversations)
            /\ \A i \in 1..Len(conversations) :
                  IF /\ event' = "cleanup_old_data"
                     /\ conversations[i].status = "active"
                     /\ conversations[i].updated_at = "before_cutoff"
                  THEN conversations'[i].status = "archived"
                  ELSE conversations'[i] = conversations[i]]_vars

C25_Witness ==
    /\ event = "cleanup_old_data"
    /\ Len(conversations) = 3 /\ Len(messages) = 3
    /\ conversations[1] = [status |-> "archived", updated_at |-> "after_cutoff"]
    /\ conversations[2] = [status |-> "completed", updated_at |-> "before_cutoff"]
    /\ conversations[3] = [status |-> "active", updated_at |-> "after_cutoff"]

ActiveConversations == {i \in 1..Len(conversations) : conversations[i].status = "active"}

\* C26: at most one Conversation of the session is active, and a Conversation
\* is created only by a save_message issued while the session has no current
\* Conversation, which becomes the current one and receives the Turn.
C26_OneActiveConversationCreatedLazily ==
    [][ /\ Cardinality(ActiveConversations) <= 1
        /\ Cardinality(ActiveConversations') <= 1
        /\ (conversations = <<>> <=> current_conversation_id = 0)
        /\ Len(conversations') # Len(conversations)
              => /\ current_conversation_id = 0
                 /\ Len(conversations') = Len(conversations) + 1
                 /\ current_conversation_id' = Len(conversations')
                 /\ conversations'[current_conversation_id'].status = "active"
                 /\ Len(messages') = Len(messages) + 1
                 /\ Last(messages').conversation_id = current_conversation_id'
      ]_vars

C26_Witness ==
    /\ conversations = <<[status |-> "active"]>>
    /\ current_conversation_id = 1
    /\ Len(messages) = 4
    /\ \A i \in 1..4 : messages[i].conversation_id = 1

\* C27: an interrupt at the input prompt ends the session: it adds, changes
\* and removes no persisted Turn, and no model call and no tool dispatch, nor
\* any other step, follows it.
C27_InterruptEndsSession ==
    [][ /\ (event' = "interrupt"
              => /\ pc = AWAITING_USER_INPUT
                 /\ pc' = EXITED
                 /\ UNCHANGED <<store, conversation_history, history, n_calls>>)
        /\ event # "interrupt"
      ]_vars

C27_Witness ==
    /\ event = "interrupt"
    /\ pc = EXITED
    /\ Len(messages) = 2
    /\ n_calls = 1

----------------------------------------------------------------------------
(* tools: _normalize_path, write_to_file and edit_file.  A path is its      *)
(* leading separator and its components; the project root is the directory *)
(* the program was started in, which may hold a symbolic link to a          *)
(* directory outside of it.                                                 *)

MaxPathLen == 3
PATHS == "PATHS"
PathComponents == {"..", ".", "a", "link", "home", "proj"}
Path(abs, parts) == [abs |-> abs, parts |-> parts]
Paths ==
    {Path(abs, parts) :
        abs \in BOOLEAN,
        parts \in UNION {[1..n -> PathComponents] : n \in 0..MaxPathLen}}
PROJECT_ROOT == Path(TRUE, <<"home", "proj">>)
LinkInProject == <<"home", "proj", "link">>
LinkTarget == <<"tmp">>
Raises == [raises |-> TRUE]
Returns(path) == [raises |-> FALSE, path |-> path]

\* os.path.normpath: "." is dropped, ".." removes the component before it,
\* is dropped at the root and is kept at the start of a relative path.
RECURSIVE normparts(_, _, _, _)
normparts(parts, i, abs, out) ==
    IF i > Len(parts) THEN out
    ELSE IF parts[i] = "." THEN normparts(parts, i + 1, abs, out)
    ELSE IF parts[i] = ".."
         THEN IF out # <<>> /\ out[Len(out)] # ".."
              THEN normparts(parts, i + 1, abs, SubSeq(out, 1, Len(out) - 1))
              ELSE IF abs THEN normparts(parts, i + 1, abs, out)
              ELSE normparts(parts, i + 1, abs, Append(out, ".."))
    ELSE normparts(parts, i + 1, abs, Append(out, parts[i]))

os_path_normpath(path) == Path(path.abs, normparts(path.parts, 1, path.abs, <<>>))

\* os.path.join(a, b) for a relative b.
os_path_join(a, b) == Path(a.abs, a.parts \o b.parts)

\* os.path.commonpath([a, b]): ValueError for an absolute and a relative
\* path; else the longest common run of leading components, "." left out.
os_path_commonpath(a, b) ==
    LET pa == SelectSeq(a.parts, LAMBDA c : c # ".")
        pb == SelectSeq(b.parts, LAMBDA c : c # ".")
        m == IF Len(pa) < Len(pb) THEN Len(pa) ELSE Len(pb)
        agree == {k \in 0..m : \A i \in 1..k : pa[i] = pb[i]}
    IN  IF a.abs # b.abs THEN Raises
        ELSE Returns(Path(a.abs, SubSeq(pa, 1, Max(agree))))

\* _normalize_path(path)
normalize_path(path) ==
    LET inside == os_path_commonpath(path, PROJECT_ROOT)
        abs_path == IF ~path.abs THEN os_path_join(PROJECT_ROOT, path)
                    ELSE IF inside = Returns(PROJECT_ROOT) THEN path
                    ELSE os_path_join(PROJECT_ROOT, Path(FALSE, path.parts))
        normal == os_path_normpath(abs_path)
    IN  IF os_path_commonpath(normal, PROJECT_ROOT) # Returns(PROJECT_ROOT) THEN Raises
        ELSE Returns(normal)

HasPrefix(parts, prefix) ==
    Len(prefix) <= Len(parts) /\ SubSeq(parts, 1, Len(prefix)) = prefix

\* Where the operating system puts a file opened under a normalised
\* absolute path: a symbolic link on the way is followed.
location(path, link) ==
    IF link = "outside" /\ HasPrefix(path.parts, LinkInProject)
    THEN LinkTarget \o SubSeq(path.parts, Len(LinkInProject) + 1, Len(path.parts))
    ELSE path.parts

\* The directories that exist: open(abs_path, "w") fails on them.
IsDirectory(path, link) ==
    \/ HasPrefix(PROJECT_ROOT.parts, path.parts)
    \/ link = "outside" /\ path.parts = LinkInProject

InitPaths ==
    /\ pc = PATHS
    /\ event = "start"
    /\ ENABLE_MEMORY = TRUE
    /\ SessionLocal = TRUE
    /\ SessionProvider
    /\ FreshMemory
    /\ conversation_history = <<>>
    /\ history = <<>>
    /\ current_conversation_id = 0
    /\ conversations = <<>>
    /\ \E link \in {"none", "outside"} : fs = [UntouchedFiles EXCEPT !.link = link]
    /\ writers = SingleWriter
    /\ cwd = StartDirectory
    /\ stdio = NewStdioClient
    /\ learned = NothingLearned
    /\ task_result = NoTaskResult
    /\ task_manager = NewTaskManager
    /\ called = NothingCalled
    /\ commit = "ok"
    /\ messages = <<>>
    /\ written = NoIntent
    /\ agent_response_text = <<>>
    /\ parsed_response = NotParsed
    /\ tool_name \in {"write_to_file", "edit_file"}
    /\ \E path \in Paths : tool_args = [n \in {"path"} |-> path]
    /\ in_loop = FALSE
    /\ n_inputs = 0
    /\ n_calls = 0

paths_frame == <<ENABLE_MEMORY, SessionLocal, PREFERRED_LLM_PROVIDER, adapters, key,
                 current_provider, prior_conversations, project_context, learning_memory,
                 writers, conversation_history, history, response, invocation, in_loop,
                 n_inputs, n_calls, store, called, task_manager, task_result, learned, stdio, cwd>>

\* write_to_file(path, content), and edit_file, which calls it.
write_to_file ==
    /\ pc = PATHS
    /\ event = "start"
    /\ LET abs_path == normalize_path(tool_args["path"])
       IN  IF abs_path.raises
           THEN /\ event' = "Error writing to file"
                /\ fs' = [fs EXCEPT !.abs_path = {}]
           ELSE IF IsDirectory(abs_path.path, fs.link)
           THEN /\ event' = "Error writing to file"
                /\ fs' = [fs EXCEPT !.abs_path = {abs_path.path}]
           ELSE /\ event' = "written successfully"
                /\ fs' = [fs EXCEPT !.abs_path = {abs_path.path},
                                    !.files = @ \cup {location(abs_path.path, fs.link)}]
    /\ UNCHANGED <<pc, paths_frame>>

NextPaths == write_to_file

SpecPaths == InitPaths /\ [][NextPaths]_vars

\* C28: _normalize_path returns an absolute path inside PROJECT_ROOT or
\* raises, for every relative or absolute path, with ".." or not, so
\* write_to_file and edit_file write no file outside PROJECT_ROOT.
C28_WritesStayInsideProjectRoot ==
    /\ \A abs_path \in fs.abs_path :
          abs_path.abs /\ HasPrefix(abs_path.parts, PROJECT_ROOT.parts)
    /\ \A f \in fs.files : HasPrefix(f, PROJECT_ROOT.parts)

----------------------------------------------------------------------------
(* The session with an OpenAI-compatible adapter selected: what generate    *)
(* puts in the request for the history the loop hands it.                  *)

OpenAICompatible == {"openai", "groq", "openrouter", "deepseek", "ollama"}
SYSTEM_PROMPT == <<Ch("SYSTEM_PROMPT")>>

\* A Turn as main, run_tool_loop and get_conversation_history build it:
\* {"role": role, "parts": [{"text": text}]}.
loop_message(turn) == [role |-> turn.role, parts |-> <<[text |-> turn.text]>>]

\* generate: the system message, then messages.extend(history).
OpenAICompatible_generate(h) ==
    <<[role |-> "system", content |-> SYSTEM_PROMPT]>>
    \o [i \in 1..Len(h) |-> loop_message(h[i])]

\* The messages of the request of the last provider call.
sent_messages == OpenAICompatible_generate(history)

InitWire ==
    /\ pc = AWAITING_USER_INPUT
    /\ event = "start"
    /\ ENABLE_MEMORY \in BOOLEAN
    /\ SessionLocal = ENABLE_MEMORY
    /\ PREFERRED_LLM_PROVIDER = "auto"
    /\ current_provider \in OpenAICompatible
    /\ adapters = [name \in ProviderNames |->
                     IF name = current_provider THEN "configured" ELSE "not_configured"]
    /\ key = CHOOSE k \in 1..Len(PriorityOrder) : PriorityOrder[k] = current_provider
    /\ FreshMemory
    /\ conversation_history = <<>>
    /\ history = <<>>
    /\ current_conversation_id = 0
    /\ conversations = <<>>
    /\ fs = UntouchedFiles
    /\ writers = SingleWriter
    /\ cwd = StartDirectory
    /\ stdio = NewStdioClient
    /\ learned = NothingLearned
    /\ task_result = NoTaskResult
    /\ task_manager = NewTaskManager
    /\ called = NothingCalled
    /\ commit = "ok"
    /\ messages = <<>>
    /\ written = NoIntent
    /\ agent_response_text = <<>>
    /\ parsed_response = NotParsed
    /\ tool_name = None
    /\ tool_args = NoParameters
    /\ in_loop = FALSE
    /\ n_inputs = 0
    /\ n_calls = 0

SpecWire == InitWire /\ [][Next]_vars

\* The roles a chat-completions backend accepts, for the roles of the loop.
BackendRole(role) == IF role = "model" THEN "assistant" ELSE role

\* C29: for every history the loop produces, the messages an
\* OpenAI-compatible adapter sends are role/content pairs: after the system
\* message, one per Turn, with the Turn's role mapped to a role the backend
\* accepts and the Turn's text as content.
C29_AdapterSendsRoleContentPairs ==
    (event \in ModelCallEvents /\ current_provider \in OpenAICompatible)
    => /\ Len(sent_messages) = Len(history) + 1
       /\ \A i \in 1..Len(history) :
             /\ DOMAIN sent_messages[i + 1] = {"role", "content"}
             /\ sent_messages[i + 1].role = BackendRole(history[i].role)
             /\ sent_messages[i + 1].content = history[i].text

----------------------------------------------------------------------------
(* A session that has been running for a while: the conversation already   *)
(* holds the Turns of earlier exchanges, a user input and a plain answer   *)
(* each, and the session is back at the prompt.                             *)

EarlierTurn(i) ==
    IF i % 2 = 1 THEN Turn("user", <<Ch("list files in .")>>)
    ELSE Turn("model", <<Ch("hello")>>)

InitLong ==
    /\ pc = AWAITING_USER_INPUT
    /\ event = "start"
    /\ ENABLE_MEMORY = TRUE
    /\ SessionLocal = TRUE
    /\ SessionProvider
    /\ FreshMemory
    /\ \E earlier \in {limit - 2, limit} :
          /\ conversation_history = [i \in 1..earlier |-> EarlierTurn(i)]
          /\ messages = [i \in 1..earlier |->
                            [conversation_id |-> 1, role |-> EarlierTurn(i).role,
                             content |-> EarlierTurn(i).text, tool_name |-> None,
                             message_order |-> i]]
    /\ history = <<>>
    /\ current_conversation_id = 1
    /\ conversations = <<[status |-> "active"]>>
    /\ fs = UntouchedFiles
    /\ writers = SingleWriter
    /\ cwd = StartDirectory
    /\ stdio = NewStdioClient
    /\ learned = NothingLearned
    /\ task_result = NoTaskResult
    /\ task_manager = NewTaskManager
    /\ called = NothingCalled
    /\ commit = "ok"
    /\ written = NoIntent
    /\ agent_response_text = <<>>
    /\ parsed_response = NotParsed
    /\ tool_name = None
    /\ tool_args = NoParameters
    /\ in_loop = FALSE
    /\ n_inputs = 0
    /\ n_calls = 0

SpecLong == InitLong /\ [][Next]_vars

\* C30: on every model call, whatever the length of the conversation, the
\* history passed to the provider ends with the Turn appended last, the
\* latest user input or the latest tool result.
C30_HistoryEndsWithLatestTurn ==
    [][event' \in ModelCallEvents
         => /\ history' # <<>>
            /\ Last(history').role = Last(conversation_history).role
            /\ Last(history').text =
                  clean_tool_result_for_gemini(Last(conversation_history).text)]_vars

----------------------------------------------------------------------------
\* C31: once the completion action has marked the current Conversation
\* completed, no further Turn is saved into it: every Turn a step saves
\* goes into a Conversation that was not completed before the step.
C31_NoTurnSavedIntoCompletedConversation ==
    [][\A i \in (Len(messages) + 1)..Len(messages') :
          LET c == messages'[i].conversation_id
          IN  ~(c \in DOMAIN conversations /\ conversations[c].status = "completed")]_vars

----------------------------------------------------------------------------
(* Dispatch by name: the attribute of the tools module that a response's    *)
(* tool name selects, called with the response's parameters as keywords.    *)

DISPATCH == "DISPATCH"

\* What the tools module binds to a name: a function or a class with the
\* parameters it accepts and those it requires, or something not callable.
Function(params, required) == [kind |-> "function", params |-> params, required |-> required]
NotCallable(kind) == [kind |-> kind, params |-> {}, required |-> {}]

\* dir(tools), the names used here.
ToolsModule ==
    [n \in {"list_files", "read_file", "execute_command", "get_file_info",
             "_normalize_path", "safe_path_validation", "make_tool", "Path", "os",
             "PROJECT_ROOT"} |->
        CASE n = "list_files" -> Function({"path"}, {})
          [] n = "read_file" -> Function({"path"}, {"path"})
          [] n = "execute_command" -> Function({"command"}, {"command"})
          [] n = "get_file_info" -> Function({"file_path"}, {"file_path"})
          [] n = "_normalize_path" -> Function({"path"}, {"path"})
          [] n = "safe_path_validation" -> Function({"path"}, {"path"})
          [] n = "make_tool" ->
                Function({"name", "description", "properties", "required"},
                         {"name", "description", "properties", "required"})
          [] n = "Path" -> [kind |-> "class", params |-> {}, required |-> {}]
          [] n = "os" -> NotCallable("module")
          [] n = "PROJECT_ROOT" -> NotCallable("str")]

\* The tools declared to the model: those with a FunctionDeclaration.
DeclaredTools == {"list_files", "read_file", "execute_command"}

\* The tool names of the responses: the above and a name tools does not have.
EmittedToolNames == DOMAIN ToolsModule \cup {"no_such_tool"}
EmittedParameters == {"path", "file_path", "command"}

\* tool_function = getattr(tools, tool_name), then the call of
\* tool_function with tool_args as keyword arguments: the callable
\* executed, if one is.
getattr_call(name, args) ==
    IF name \notin DOMAIN ToolsModule THEN {}                \* AttributeError
    ELSE LET attr == ToolsModule[name]
         IN  IF attr.kind \notin {"function", "class"} THEN {}   \* TypeError
             ELSE IF ~(attr.required \subseteq DOMAIN args) THEN {} \* TypeError
             ELSE IF ~(DOMAIN args \subseteq attr.params) THEN {}   \* TypeError
             ELSE {name}

InitDispatch ==
    /\ pc = DISPATCH
    /\ event = "start"
    /\ ENABLE_MEMORY = FALSE
    /\ SessionLocal = TRUE
    /\ SessionProvider
    /\ FreshMemory
    /\ conversation_history = <<>>
    /\ history = <<>>
    /\ current_conversation_id = 0
    /\ conversations = <<>>
    /\ fs = UntouchedFiles
    /\ writers = SingleWriter
    /\ cwd = StartDirectory
    /\ stdio = NewStdioClient
    /\ learned = NothingLearned
    /\ task_result = NoTaskResult
    /\ task_manager = NewTaskManager
    /\ called = NothingCalled
    /\ commit = "ok"
    /\ messages = <<>>
    /\ written = NoIntent
    /\ agent_response_text = <<>>
    /\ parsed_response = NotParsed
    /\ tool_name \in EmittedToolNames
    /\ \E given \in SUBSET EmittedParameters : tool_args = [n \in given |-> <<Ch(".")>>]
    /\ in_loop = FALSE
    /\ n_inputs = 0
    /\ n_calls = 0

dispatch_frame == <<ENABLE_MEMORY, SessionLocal, PREFERRED_LLM_PROVIDER, adapters, key,
                    current_provider, prior_conversations, project_context,
                    learning_memory, writers, fs, conversation_history, history, response,
                    invocation, in_loop, n_inputs, n_calls, store, task_manager, task_result, learned, stdio, cwd>>

\* main, lines 327-329 and 352-353, and run_tool_loop, lines 179-181 and
\* 198-200: the call by name, and what it leaves behind.
dispatch_by_name ==
    /\ pc = DISPATCH
    /\ event = "start"
    /\ called' = called \cup getattr_call(tool_name, tool_args)
    /\ event' = (IF getattr_call(tool_name, tool_args) = {} THEN "tool_error"
                 ELSE "tool_called")
    /\ UNCHANGED <<pc, dispatch_frame>>

NextDispatch == dispatch_by_name

SpecDispatch == InitDispatch /\ [][NextDispatch]_vars

\* C32: a tool name that is not one of the declared tools never causes a
\* callable to be executed; the dispatch only produces an error.
C32_UndeclaredNameExecutesNothing ==
    (event # "start" /\ tool_name \notin DeclaredTools)
    => (called = {} /\ event = "tool_error")

----------------------------------------------------------------------------
\* The Turns main has appended since the prompt when a user turn ends
\* without progress: the user Turn when the first provider call fails, the
\* user Turn and the model Turn when the user declines, none when the
\* exception comes before the user Turn is appended.
AppendedThisTurn(ended) ==
    CASE ended = "main_provider_error" -> 1
      [] ended = "declined" -> 2
      [] OTHER -> 0

NoProgressEvents == {"main_provider_error", "declined", "main_exception"}

\* C33: when a user turn ends without progress (provider error on the
\* first model call, the user declining, an exception in the main loop),
\* the in-memory history still begins with the history as it was before
\* that user input: no Turn of an earlier turn is removed.
C33_NoProgressKeepsEarlierTurns ==
    [][event' \in NoProgressEvents
         => LET before == SubSeq(conversation_history, 1,
                                 Len(conversation_history) - AppendedThisTurn(event'))
            IN  /\ Len(conversation_history') >= Len(before)
                /\ SubSeq(conversation_history', 1, Len(before)) = before]_vars

----------------------------------------------------------------------------
(* The task manager: the tools new_task, start_task_work,                   *)
(* complete_current_task and break_down_current_task on the module's        *)
(* TaskManager.                                                             *)

TASKS == "TASKS"

\* Tasks created in a session.
MaxTasks == 2

\* _generate_task_id: "task_", the clock's seconds, "_", the counter. The
\* counter alone tells the ids of a session apart.
task_id(task_counter) ==
    <<"task_1", "task_2", "task_3", "task_4", "task_5", "task_6", "task_7",
      "task_8">>[task_counter]

\* An id no task of the session has.
UnknownTaskId == "task_0"

IdMarker == Ch("ID: ")
Comma == Ch(",")

\* str.split(sep): the pieces of text between the occurrences of sep.
SplitOn(text, sep) ==
    LET cuts == {i \in 1..Len(text) : text[i] = sep}
        n == Cardinality(cuts)
        cut(k) == IF k = 0 THEN 0
                  ELSE IF k = n + 1 THEN Len(text) + 1
                  ELSE CHOOSE i \in cuts : Cardinality({j \in cuts : j <= i}) = k
    IN  [k \in 1..(n + 1) |-> SubSeq(text, cut(k - 1) + 1, cut(k) - 1)]

\* Descriptions of tasks: plain words, words that quote an id.
TaskDescriptions ==
    {<<Ch("plain")>>,
     <<Ch("Fix "), IdMarker, Ch("7 bug")>>,
     <<Ch("see "), IdMarker, Ch("task_1")>>}

\* new_task, priority_map.get(priority.lower(), TaskPriority.MEDIUM)
priority_enum(priority) ==
    CASE priority = "low" -> "LOW"
      [] priority = "medium" -> "MEDIUM"
      [] priority = "high" -> "HIGH"
      [] priority = "urgent" -> "URGENT"
      [] OTHER -> "MEDIUM"

\* [piece.strip() for piece in text.split(",")]
comma_separated(text) ==
    LET pieces == SplitOn(text, Comma)
    IN  [i \in 1..Len(pieces) |-> strip(pieces[i])]

\* TaskManager.create_task: the manager afterwards and the text returned.
create_task(tm, description, priority, parent_task_id, tags) ==
    LET id == task_id(tm.task_counter + 1)
        task == [description |-> description, status |-> "PENDING",
                 priority |-> priority, parent_task_id |-> parent_task_id,
                 subtasks |-> <<>>, progress |-> 0, tags |-> tags]
        inserted == [t \in DOMAIN tm.tasks \cup {id} |->
                        IF t = id THEN task ELSE tm.tasks[t]]
        linked == IF parent_task_id # None /\ parent_task_id \in DOMAIN inserted
                  THEN [inserted EXCEPT ![parent_task_id].subtasks = Append(@, id)]
                  ELSE inserted
    IN  [tm |-> [tm EXCEPT !.tasks = linked, !.task_counter = @ + 1],
         result |->
            JoinLines(<<<<Ch("Tarea creada: ")>> \o description,
                        <<Ch("(id) "), IdMarker, Ch(id)>>,
                        <<Ch("Prioridad: "), Ch(priority)>>>>
                      \o (IF parent_task_id # None
                          THEN <<<<Ch("Tarea padre: "), Ch(parent_task_id)>>>>
                          ELSE <<>>)
                      \o (IF tags # <<>>
                          THEN <<<<Ch("Tags: ")>> \o Flatten(tags)>>
                          ELSE <<>>))]

\* break_down_task, lines 159-164: the id read back from create_task's text,
\* the text after the first "ID: " of the first line that has one.
extract_id(result) ==
    LET lines == SplitOn(result, NL)
        with_marker == {i \in 1..Len(lines) : \E j \in 1..Len(lines[i]) :
                                                  lines[i][j] = IdMarker}
    IN  IF with_marker = {} THEN <<>>
        ELSE LET first == CHOOSE i \in with_marker : \A j \in with_marker : i <= j
             IN  <<SplitOn(lines[first], IdMarker)[2]>>

\* break_down_task, lines 150-164: one create_task per description;
\* created_subtasks collects the ids read back.
RECURSIVE create_subtasks(_, _, _)
create_subtasks(tm, parent, descriptions) ==
    IF descriptions = <<>> THEN [tm |-> tm, created_subtasks |-> <<>>]
    ELSE LET made == create_task(tm, Head(descriptions), tm.tasks[parent].priority,
                                 parent, tm.tasks[parent].tags)
             rest == create_subtasks(made.tm, parent, Tail(descriptions))
         IN  [tm |-> rest.tm,
              created_subtasks |-> extract_id(made.result) \o rest.created_subtasks]

\* break_down_task, lines 166-176: the count, and one entry of the listing
\* for each id read back that is the id of a task.
listing(tm, created_subtasks) ==
    SelectSeq(created_subtasks, LAMBDA sub : \E t \in DOMAIN tm.tasks : sub = <<Ch(t)>>)

\* Mutant: completing the current task leaves it current.
current_kept_after_complete(tm, id) == tm.current_task_id

\* complete_task, lines 131-133: the current task is cleared when it is
\* the one completed.
current_after_complete(tm, id) ==
    IF tm.current_task_id = id THEN None ELSE tm.current_task_id

InitTasks ==
    /\ pc = TASKS
    /\ event = "start"
    /\ ENABLE_MEMORY = FALSE
    /\ SessionLocal = TRUE
    /\ SessionProvider
    /\ FreshMemory
    /\ conversation_history = <<>>
    /\ history = <<>>
    /\ current_conversation_id = 0
    /\ conversations = <<>>
    /\ fs = UntouchedFiles
    /\ writers = SingleWriter
    /\ cwd = StartDirectory
    /\ stdio = NewStdioClient
    /\ learned = NothingLearned
    /\ called = NothingCalled
    /\ task_manager = NewTaskManager
    /\ task_result = NoTaskResult
    /\ commit = "ok"
    /\ messages = <<>>
    /\ written = NoIntent
    /\ agent_response_text = <<>>
    /\ parsed_response = NotParsed
    /\ tool_name = None
    /\ tool_args = NoParameters
    /\ in_loop = FALSE
    /\ n_inputs = 0
    /\ n_calls = 0

tasks_frame == <<pc, ENABLE_MEMORY, SessionLocal, PREFERRED_LLM_PROVIDER, adapters, key,
                 current_provider, prior_conversations, project_context, learning_memory,
                 writers, fs, called, conversation_history, history, response, invocation,
                 in_loop, n_inputs, n_calls, store, learned, stdio, cwd>>

\* What new_task is given: a priority it knows with a tag, one it does not
\* know with no tags.
NewTaskInputs ==
    {[description |-> <<Ch("plain")>>, priority |-> "high", tags |-> <<Blank, Ch("ui")>>],
     [description |-> <<Ch("plain")>>, priority |-> "asap", tags |-> <<>>]}

\* new_task(description, priority, parent_task_id, tags)
new_task ==
    /\ pc = TASKS
    /\ task_manager.task_counter < MaxTasks
    /\ \E given \in NewTaskInputs,
          parent_task_id \in {None, UnknownTaskId} \cup DOMAIN task_manager.tasks :
          LET tags_list == IF given.tags = <<>> THEN <<>>
                           ELSE comma_separated(given.tags)
              made == create_task(task_manager, given.description,
                                  priority_enum(given.priority), parent_task_id,
                                  tags_list)
          IN  task_manager' = made.tm
    /\ task_result' = [NoTaskResult EXCEPT !.op = "create_task"]
    /\ event' = "new_task"
    /\ UNCHANGED tasks_frame

\* start_task_work(task_id) and TaskManager.start_task
start_task_work ==
    /\ pc = TASKS
    /\ \E id \in {UnknownTaskId} \cup DOMAIN task_manager.tasks :
          IF id \notin DOMAIN task_manager.tasks
          THEN /\ UNCHANGED task_manager
               /\ task_result' = [NoTaskResult EXCEPT !.op = "no encontrada"]
          ELSE /\ task_manager' = [task_manager EXCEPT
                                      !.tasks[id].status = "IN_PROGRESS",
                                      !.current_task_id = id]
               /\ task_result' = [NoTaskResult EXCEPT !.op = "start_task"]
    /\ event' = "start_task_work"
    /\ UNCHANGED tasks_frame

\* complete_current_task(notes) and TaskManager.complete_task
complete_current_task ==
    /\ pc = TASKS
    /\ LET id == task_manager.current_task_id
       IN  IF id = None
           THEN /\ UNCHANGED task_manager
                /\ task_result' = [NoTaskResult EXCEPT !.op = "No hay tarea activa"]
           ELSE IF id \notin DOMAIN task_manager.tasks
           THEN /\ UNCHANGED task_manager
                /\ task_result' = [NoTaskResult EXCEPT !.op = "no encontrada"]
           ELSE /\ task_manager' = [task_manager EXCEPT
                                       !.tasks[id].status = "COMPLETED",
                                       !.tasks[id].progress = 100,
                                       !.current_task_id =
                                           current_after_complete(task_manager, id)]
                /\ task_result' = [NoTaskResult EXCEPT !.op = "complete_task"]
    /\ event' = "complete_current_task"
    /\ UNCHANGED tasks_frame

\* What break_down_current_task is given: descriptions separated by commas.
BreakDownInputs ==
    TaskDescriptions
    \cup {<<Ch("plain"), Comma, Blank>> \o b : b \in TaskDescriptions}

\* break_down_current_task(subtask_descriptions) and
\* TaskManager.break_down_task
break_down_current_task ==
    /\ pc = TASKS
    /\ \E subtask_descriptions \in BreakDownInputs :
          LET id == task_manager.current_task_id
              subtasks == comma_separated(subtask_descriptions)
          IN  IF id = None
              THEN /\ UNCHANGED task_manager
                   /\ task_result' = [NoTaskResult EXCEPT !.op = "No hay tarea activa"]
              ELSE IF id \notin DOMAIN task_manager.tasks
              THEN /\ UNCHANGED task_manager
                   /\ task_result' = [NoTaskResult EXCEPT !.op = "no encontrada"]
              ELSE /\ task_manager.task_counter + Len(subtasks) <= MaxTasks
                   /\ LET broken == create_subtasks(task_manager, id, subtasks)
                      IN  /\ task_manager' = broken.tm
                          /\ task_result' =
                                [op |-> "break_down_task",
                                 descriptions |-> subtasks,
                                 count |-> Len(broken.created_subtasks),
                                 listed |-> listing(broken.tm, broken.created_subtasks)]
    /\ event' = "break_down_current_task"
    /\ UNCHANGED tasks_frame

NextTasks ==
    \/ new_task
    \/ start_task_work
    \/ complete_current_task
    \/ break_down_current_task

SpecTasks == InitTasks /\ [][NextTasks]_vars

\* C34: break_down_task creates exactly one subtask per description, each
\* with the parent's priority and tags and linked to the parent, and its
\* report, count and listing, holds exactly the ids of the subtasks it
\* created, whatever the descriptions say.
C34_BreakDownReportsWhatItCreated ==
    [][task_result'.op = "break_down_task"
         => LET parent == task_manager.current_task_id
                new == DOMAIN task_manager'.tasks \ DOMAIN task_manager.tasks
            IN  /\ Cardinality(new) = Len(task_result'.descriptions)
                /\ \A id \in new :
                      /\ task_manager'.tasks[id].priority =
                            task_manager.tasks[parent].priority
                      /\ task_manager'.tasks[id].tags = task_manager.tasks[parent].tags
                      /\ task_manager'.tasks[id].parent_task_id = parent
                      /\ \E i \in 1..Len(task_manager'.tasks[parent].subtasks) :
                            task_manager'.tasks[parent].subtasks[i] = id
                /\ task_result'.count = Cardinality(new)
                /\ Len(task_result'.listed) = Cardinality(new)
                /\ {task_result'.listed[i] : i \in 1..Len(task_result'.listed)}
                      = {<<Ch(id)>> : id \in new}]_vars

\* C35: the current task is unset or is an existing task in progress.
C35_CurrentTaskIsInProgress ==
    \/ task_manager.current_task_id = None
    \/ /\ task_manager.current_task_id \in DOMAIN task_manager.tasks
       /\ task_manager.tasks[task_manager.current_task_id].status = "IN_PROGRESS"

\* A task that was completed and started again is current and has just
\* been broken down.
C35_Witness ==
    /\ event = "break_down_current_task"
    /\ task_result.op = "break_down_task"
    /\ task_manager.current_task_id # None
    /\ task_manager.tasks[task_manager.current_task_id].progress = 100
    /\ task_manager.tasks[task_manager.current_task_id].subtasks # <<>>

\* C36: parent and child links agree: a task with a parent has a parent
\* that exists and lists it among its subtasks, and every id in a subtasks
\* list is an existing task whose parent is the task holding the list.
C36_ParentChildLinksConsistent ==
    LET tasks == task_manager.tasks
    IN  \A id \in DOMAIN tasks :
           /\ tasks[id].parent_task_id # None
                => /\ tasks[id].parent_task_id \in DOMAIN tasks
                   /\ \E i \in 1..Len(tasks[tasks[id].parent_task_id].subtasks) :
                         tasks[tasks[id].parent_task_id].subtasks[i] = id
           /\ \A i \in 1..Len(tasks[id].subtasks) :
                 /\ tasks[id].subtasks[i] \in DOMAIN tasks
                 /\ tasks[tasks[id].subtasks[i]].parent_task_id = id

----------------------------------------------------------------------------
(* The learning engine: learn_pattern, reached through the three learn_*    *)
(* methods, and get_learned_pattern, on table learning_memory. The rows     *)
(* carry no clock columns here.                                             *)

LEARNING == "LEARNING"

\* Observations in a session.
MaxObservations == 12

\* examples[-10:]
KeptExamples == 10

\* Confidence scores in tenths: 10 is 1.0.
FullConfidence == 10

\* Mutant: the confidence is raised without the cap.
reinforced_confidence_uncapped(confidence_score) == confidence_score + 1

\* min(1.0, existing.confidence_score + 0.1)
reinforced_confidence(confidence_score) ==
    IF confidence_score + 1 < FullConfidence THEN confidence_score + 1
    ELSE FullConfidence

\* examples[-10:]
last_examples(examples) ==
    IF Len(examples) <= KeptExamples THEN examples
    ELSE SubSeq(examples, Len(examples) - KeptExamples + 1, Len(examples))

\* session.query(LearningMemory).filter(category, key_pattern).first(): the
\* position of the row, 0 when there is none.
existing_pattern(rows, category, pattern) ==
    LET found == {i \in 1..Len(rows) :
                     rows[i].category = category /\ rows[i].key_pattern = pattern}
    IN  IF found = {} THEN 0 ELSE CHOOSE i \in found : \A j \in found : i <= j

\* learn_pattern, lines 36-43: the learned_data of an existing row after
\* the new data is combined into it.
combined_data(learned_data, data) ==
    IF learned_data.has_examples
    THEN IF data.has_examples
         THEN [learned_data EXCEPT
                  !.examples = last_examples(learned_data.examples \o data.examples)]
         ELSE learned_data
    ELSE data

\* learn_pattern(category, pattern, data, confidence): table learning_memory
\* afterwards.
learn_pattern(table, category, pattern, data, confidence) ==
    LET at == existing_pattern(table.rows, category, pattern)
    IN  IF ~get_session THEN table
        ELSE IF at # 0
        THEN [table EXCEPT
                 !.rows[at].usage_count = @ + 1,
                 !.rows[at].confidence_score = reinforced_confidence(@),
                 !.rows[at].learned_data =
                     IF table.json_tracked THEN combined_data(@, data) ELSE @]
        ELSE [table EXCEPT
                 !.rows = Append(@, [category |-> category, key_pattern |-> pattern,
                                     learned_data |-> data,
                                     confidence_score |-> confidence,
                                     usage_count |-> 1])]

\* The observations so far: the next one is numbered after them.
Observations(table) ==
    LET RECURSIVE total(_)
        total(i) == IF i = 0 THEN 0 ELSE table.rows[i].usage_count + total(i - 1)
    IN  total(Len(table.rows))

\* How often the pattern has been observed.
Observed(table, category, pattern) ==
    LET at == existing_pattern(table.rows, category, pattern)
    IN  IF at = 0 THEN 0 ELSE table.rows[at].usage_count

\* What the learn_* methods pass to learn_pattern: category, pattern, data
\* and confidence. The example of an observation is named by its number.
LearnCalls(table) ==
    \* learn_file_encoding_solution(filename, encoding, solution, success)
    {[category |-> "file_encoding", pattern |-> "text_file.txt",
      data |-> [has_examples |-> TRUE,
                examples |-> <<Observed(table, "file_encoding", "text_file.txt") + 1>>],
      confidence |-> IF success THEN 9 ELSE 3] : success \in BOOLEAN}
    \* learn_error_solution(error_type, error_message, solution, context)
    \cup {[category |-> "error_solution", pattern |-> "TypeError:failed",
           data |-> [has_examples |-> TRUE,
                     examples |-> <<Observed(table, "error_solution",
                                             "TypeError:failed") + 1>>],
           confidence |-> FullConfidence]}
    \* learn_user_pattern(pattern_type, pattern_data)
    \cup {[category |-> "user_pattern", pattern |-> "tool_usage:list_files",
           data |-> [has_examples |-> FALSE, examples |-> <<>>],
           confidence |-> FullConfidence]}

InitLearning ==
    /\ pc = LEARNING
    /\ event = "start"
    /\ ENABLE_MEMORY = TRUE
    /\ SessionLocal \in BOOLEAN
    /\ SessionProvider
    /\ FreshMemory
    /\ conversation_history = <<>>
    /\ history = <<>>
    /\ current_conversation_id = 0
    /\ conversations = <<>>
    /\ fs = UntouchedFiles
    /\ writers = SingleWriter
    /\ cwd = StartDirectory
    /\ stdio = NewStdioClient
    /\ \E json_tracked \in BOOLEAN :
          learned = [NothingLearned EXCEPT !.json_tracked = json_tracked]
    /\ called = NothingCalled
    /\ task_manager = NewTaskManager
    /\ task_result = NoTaskResult
    /\ commit = "ok"
    /\ messages = <<>>
    /\ written = NoIntent
    /\ agent_response_text = <<>>
    /\ parsed_response = NotParsed
    /\ tool_name = None
    /\ tool_args = NoParameters
    /\ in_loop = FALSE
    /\ n_inputs = 0
    /\ n_calls = 0

learning_frame == <<pc, ENABLE_MEMORY, SessionLocal, PREFERRED_LLM_PROVIDER, adapters, key,
                    current_provider, prior_conversations, project_context,
                    learning_memory, writers, fs, called, task_manager, task_result,
                    conversation_history, history, response, invocation, in_loop,
                    n_inputs, n_calls, store, stdio, cwd>>

\* learn_file_encoding_solution, learn_error_solution, learn_user_pattern
learn ==
    /\ pc = LEARNING
    /\ Observations(learned) < MaxObservations
    /\ \E call \in LearnCalls(learned) :
          /\ learned' = learn_pattern(learned, call.category, call.pattern, call.data,
                                      call.confidence)
          /\ event' = call.pattern
    /\ UNCHANGED learning_frame

\* get_learned_pattern(category, pattern): the row is read, its last_used
\* set.
get_learned_pattern ==
    /\ pc = LEARNING
    /\ event' = "get_learned_pattern"
    /\ UNCHANGED <<learned, learning_frame>>

NextLearning == learn \/ get_learned_pattern

SpecLearning == InitLearning /\ [][NextLearning]_vars

----------------------------------------------------------------------------
(* StdioClient: callers in send_request, the server process, and the        *)
(* reader thread that files the server's lines in _responses.               *)

STDIO == "STDIO"

\* Requests made on one client, and lines the server writes.
MaxRequests == 3
MaxResponses == 4

\* Mutant: every request carries the same id.
req_id_constant(n) == 1

\* req_id = str(uuid.uuid4()): the n-th request's id, unlike any other.
req_id(n) == n

\* {"error": "timeout"}
TimeoutError == [kind |-> "timeout", echo |-> 0]

\* The server's answer to the n-th request: data.get("result", data).
ResultFor(n) == [kind |-> "result", echo |-> n]

\* self._responses[resp_id] = ...
dict_set(responses, id, value) ==
    {r \in responses : r.id # id} \cup {[id |-> id, value |-> value]}

\* self._responses.pop(req_id)
dict_get(responses, id) == (CHOOSE r \in responses : r.id = id).value
dict_del(responses, id) == {r \in responses : r.id # id}

InitStdio ==
    /\ pc = STDIO
    /\ event = "start"
    /\ ENABLE_MEMORY = FALSE
    /\ SessionLocal = TRUE
    /\ SessionProvider
    /\ FreshMemory
    /\ conversation_history = <<>>
    /\ history = <<>>
    /\ current_conversation_id = 0
    /\ conversations = <<>>
    /\ fs = UntouchedFiles
    /\ writers = SingleWriter
    /\ cwd = StartDirectory
    /\ stdio = NewStdioClient
    /\ learned = NothingLearned
    /\ called = NothingCalled
    /\ task_manager = NewTaskManager
    /\ task_result = NoTaskResult
    /\ commit = "ok"
    /\ messages = <<>>
    /\ written = NoIntent
    /\ agent_response_text = <<>>
    /\ parsed_response = NotParsed
    /\ tool_name = None
    /\ tool_args = NoParameters
    /\ in_loop = FALSE
    /\ n_inputs = 0
    /\ n_calls = 0

stdio_frame == <<pc, ENABLE_MEMORY, SessionLocal, PREFERRED_LLM_PROVIDER, adapters, key,
                 current_provider, prior_conversations, project_context, learning_memory,
                 writers, fs, called, task_manager, task_result, learned,
                 conversation_history, history, response, invocation, in_loop, n_inputs,
                 n_calls, store, cwd>>

\* send_request, lines 46-58: the id, and the request written to the
\* server's stdin under the lock.
send_request_write ==
    /\ pc = STDIO
    /\ Len(stdio.requests) < MaxRequests
    /\ stdio' = [stdio EXCEPT
                    !.requests = Append(@, [id |-> req_id(Len(@) + 1), at |-> "waiting",
                                            returned |-> TimeoutError])]
    /\ event' = "send_request"
    /\ UNCHANGED stdio_frame

\* The server: the answer to a request it has received, at any time and in
\* any order, or a line that carries no id.
server_writes ==
    /\ pc = STDIO
    /\ stdio.responded < MaxResponses
    /\ \/ \E n \in 1..Len(stdio.requests) :
             stdio' = [stdio EXCEPT
                          !.stdout = Append(@, [id |-> stdio.requests[n].id,
                                                result |-> ResultFor(n)]),
                          !.responded = @ + 1]
       \/ stdio' = [stdio EXCEPT
                       !.stdout = Append(@, [id |-> 0, result |-> ResultFor(0)]),
                       !.responded = @ + 1]
    /\ event' = "server"
    /\ UNCHANGED stdio_frame

\* _reader_loop: one line of the server's stdout.
reader_loop ==
    /\ pc = STDIO
    /\ stdio.stdout # <<>>
    /\ LET data == Head(stdio.stdout)
       IN  stdio' = [stdio EXCEPT
                        !.stdout = Tail(@),
                        !.responses = IF data.id # 0
                                      THEN dict_set(@, data.id, data.result)
                                      ELSE @]
    /\ event' = "reader"
    /\ UNCHANGED stdio_frame

\* send_request, lines 61-65: a turn of the wait loop that finds the
\* response.
send_request_return ==
    /\ pc = STDIO
    /\ \E n \in 1..Len(stdio.requests) :
          /\ stdio.requests[n].at = "waiting"
          /\ \E r \in stdio.responses : r.id = stdio.requests[n].id
          /\ stdio' = [stdio EXCEPT
                          !.requests[n].at = "returned",
                          !.requests[n].returned =
                              dict_get(stdio.responses, stdio.requests[n].id),
                          !.responses = dict_del(@, stdio.requests[n].id)]
    /\ event' = "returned"
    /\ UNCHANGED stdio_frame

\* send_request, lines 62 and 66: the time is up.
send_request_timeout ==
    /\ pc = STDIO
    /\ \E n \in 1..Len(stdio.requests) :
          /\ stdio.requests[n].at = "waiting"
          /\ stdio' = [stdio EXCEPT !.requests[n].at = "timed_out",
                                    !.requests[n].returned = TimeoutError]
    /\ event' = "timeout"
    /\ UNCHANGED stdio_frame

NextStdio ==
    \/ send_request_write
    \/ server_writes
    \/ reader_loop
    \/ send_request_return
    \/ send_request_timeout

SpecStdio == InitStdio /\ [][NextStdio]_vars

\* C38: send_request returns the response to its own request or the
\* timeout error, under every interleaving of callers, server and reader
\* and with late or out-of-order responses; a response is returned only
\* for a request the server answered, and never for another request.
C38_ResponseMatchesRequest ==
    \A n \in 1..Len(stdio.requests) :
       /\ stdio.requests[n].at = "returned" => stdio.requests[n].returned = ResultFor(n)
       /\ stdio.requests[n].at = "timed_out" => stdio.requests[n].returned = TimeoutError

\* The second request has returned its response while the first, answered
\* after the second and after its time was up, left its response behind.
C38_Witness ==
    /\ Len(stdio.requests) >= 2
    /\ stdio.requests[1].at = "timed_out"
    /\ stdio.requests[2].at = "returned"
    /\ \E r \in stdio.responses : r.id = stdio.requests[1].id

----------------------------------------------------------------------------
(* safe_execute(command, working_dir) and the working directory of the      *)
(* process.                                                                 *)

EXECUTE_PENDING == "EXECUTE_PENDING"
EXECUTE_RETURNED == "EXECUTE_RETURNED"

\* What os.path.exists and os.path.isdir say of the paths used here.
Directories == {"project", "project/src", "project/docs"}
Files == {"project/notes.txt"}
WorkingDirs == {None, "project/src", "project/docs", "project/notes.txt",
                "project/missing"}

\* The commands: blank or not, what shlex.split does with them, and what
\* subprocess.run does with the words.
Commands ==
    {[blank |-> TRUE, shlex |-> "ok", run |-> "exit"],
     [blank |-> FALSE, shlex |-> "ValueError", run |-> "exit"]}
    \cup {[blank |-> FALSE, shlex |-> "ok", run |-> r] :
            r \in {"exit", "TimeoutExpired", "FileNotFoundError", "PermissionError",
                   "OSError"}}

\* safe_execute: what it returns and the working directory it leaves, when
\* called in directory dir.
safe_execute_outcome(dir, command, working_dir) ==
    IF command.blank THEN [returns |-> "Empty command provided", cwd |-> dir]
    ELSE IF working_dir # None /\ working_dir \notin Directories \cup Files
    THEN [returns |-> "does not exist", cwd |-> dir]
    ELSE IF working_dir # None /\ working_dir \notin Directories
    THEN [returns |-> "is not a directory", cwd |-> dir]
    ELSE LET original_cwd == IF working_dir # None THEN dir ELSE None
             \* os.chdir(working_dir)
             entered == IF working_dir # None THEN working_dir ELSE dir
             \* if original_cwd: os.chdir(original_cwd)
             restored == IF original_cwd # None THEN original_cwd ELSE entered
         IN  IF command.shlex = "ValueError"
             THEN [returns |-> "Invalid command syntax", cwd |-> entered]
             ELSE CASE command.run = "exit" ->
                          [returns |-> "Exit Code", cwd |-> restored]
                    [] command.run = "TimeoutExpired" ->
                          [returns |-> "timed out after 30 seconds", cwd |-> restored]
                    [] command.run = "FileNotFoundError" ->
                          [returns |-> "not found", cwd |-> restored]
                    [] command.run = "PermissionError" ->
                          [returns |-> "Permission denied", cwd |-> restored]
                    [] OTHER ->
                          [returns |-> "Error executing command", cwd |-> restored]

SafeExecuteArgs ==
    {[n \in {"command", "working_dir"} |->
        IF n = "command" THEN command ELSE <<working_dir>>] :
     command \in Commands, working_dir \in WorkingDirs}

InitExecute ==
    /\ pc = EXECUTE_PENDING
    /\ event = "start"
    /\ ENABLE_MEMORY = FALSE
    /\ SessionLocal = TRUE
    /\ SessionProvider
    /\ FreshMemory
    /\ conversation_history = <<>>
    /\ history = <<>>
    /\ current_conversation_id = 0
    /\ conversations = <<>>
    /\ fs = UntouchedFiles
    /\ writers = SingleWriter
    /\ cwd = StartDirectory
    /\ stdio = NewStdioClient
    /\ learned = NothingLearned
    /\ called = NothingCalled
    /\ task_manager = NewTaskManager
    /\ task_result = NoTaskResult
    /\ commit = "ok"
    /\ messages = <<>>
    /\ written = NoIntent
    /\ agent_response_text = <<>>
    /\ parsed_response = NotParsed
    /\ tool_name = "safe_execute"
    /\ tool_args \in SafeExecuteArgs
    /\ in_loop = FALSE
    /\ n_inputs = 0
    /\ n_calls = 0

execute_frame == <<ENABLE_MEMORY, SessionLocal, PREFERRED_LLM_PROVIDER, adapters, key,
                   current_provider, prior_conversations, project_context,
                   learning_memory, writers, fs, called, task_manager, task_result,
                   learned, stdio, conversation_history, history, response, in_loop,
                   n_inputs, n_calls, store>>

\* safe_execute(command, working_dir)
safe_execute ==
    /\ pc = EXECUTE_PENDING
    /\ LET outcome == safe_execute_outcome(cwd, tool_args["command"],
                                           tool_args["working_dir"][1])
       IN  /\ event' = outcome.returns
           /\ cwd' = outcome.cwd
    /\ pc' = EXECUTE_RETURNED
    /\ UNCHANGED <<invocation, execute_frame>>

\* The model's next response asks for safe_execute again.
next_safe_execute ==
    /\ pc = EXECUTE_RETURNED
    /\ tool_args' \in SafeExecuteArgs
    /\ pc' = EXECUTE_PENDING
    /\ event' = "safe_execute"
    /\ UNCHANGED <<tool_name, cwd, execute_frame>>

NextExecute == safe_execute \/ next_safe_execute

SpecExecute == InitExecute /\ [][NextExecute]_vars

\* C39: safe_execute leaves the working directory of the process as it
\* found it, on every return path, with a working_dir argument or without.
C39_WorkingDirectoryUnchanged ==
    [][pc' = EXECUTE_RETURNED => cwd' = cwd]_vars

====
